---- MODULE Spec2Model ----
(***************************************************************************)
(* The job pipeline of wave-to-txt: the Job Store (Redis), the API         *)
(* handlers of backend/routers/transcription.py, and the Celery tasks of   *)
(* backend/worker/tasks.py and backend/worker/rag_tasks.py.                *)
(*                                                                         *)
(* Granularity.  Every action holds at most one access to a shared         *)
(* resource (Job Store, broker queue, collection files, object storage,    *)
(* the diarizing provider), so that the accesses of different processes    *)
(* interleave as they can in the deployment.  The API handlers modelled    *)
(* here are `async def` bodies without an await between their store        *)
(* accesses, so one API process runs them one at a time (variable api);    *)
(* the Celery tasks run in worker processes of their own and interleave    *)
(* with the handler in progress and with each other.  Per job, one task    *)
(* of each kind runs at a time.                                            *)
(*                                                                         *)
(* A JSON object is a function from its keys to values, so a key that was  *)
(* never written is absent from DOMAIN, and JSON null is a value.          *)
(***************************************************************************)
EXTENDS Integers, Sequences, FiniteSets, Bags, TLC

\* ------------------------------------------------------------------ bounds
\* requests about one job that reach the API after its submission: the
\* provider's callbacks and the clients' summarize requests together
MaxRequests == 3

\* ------------------------------------------------------------------ values
\* Python None / JSON null, for string-valued fields
Null == "None"
\* JSON null in the utterances field; a list L is held as <<L>>
NoUtterances == <<>>
\* job identifiers uuid4 can hand out
TaskIds == {"j1"}
\* the shared secret the operator configured, and what callers may send
TheSecret == "s3cret"
SecretHeaders == {Null, "", "wrong", TheSecret}
\* payload.status values a callback may carry
PayloadStatuses == {"completed", "error", "processing"}
\* payload.error values
PayloadErrors == {Null, "bad audio"}
\* texts the synchronous provider may return
Texts == {"hello world", ""}
\* utterances member of the transcript the diarizing provider serves
\* (an empty list, a list of speaker turns)
ProviderUtterances ==
    { << <<>> >>,
      << << [speaker |-> "A", text |-> "hi"], [speaker |-> "B", text |-> ""] >> >> }

\* ------------------------------------------------------------------ dicts
Get(d, k) == IF k \in DOMAIN d THEN d[k] ELSE Null
GetUtterances(d) == IF "utterances" \in DOMAIN d THEN d["utterances"] ELSE NoUtterances
Put(d, k, v) == [x \in (DOMAIN d) \cup {k} |-> IF x = k THEN v ELSE d[x]]
Pop(d, k) == [x \in (DOMAIN d) \ {k} |-> d[x]]
EmptyDict == [x \in {} |-> Null]
\* Python truthiness of a str | None
Truthy(s) == s # Null /\ s # ""
\* Python truthiness of a list | None
TruthyList(u) == u # NoUtterances /\ Len(u[1]) > 0

\* ------------------------------------------------------------------ names
ObjectKey(t) == CASE t = "j1" -> "j1.mp3" [] t = "j2" -> "j2.mp3"
PresignedUrl(k) == CASE k = "j1.mp3" -> "https://r2/j1.mp3?sig"
                     [] k = "j2.mp3" -> "https://r2/j2.mp3?sig"
\* one collection for every job
CollectionName_Shared(t) == "chat_shared"
\* rag_tasks.py 55 and chat.py 77: f"chat_{task_id}"
CollectionName(t) == CASE t = "j1" -> "chat_j1" [] t = "j2" -> "chat_j2"

VARIABLES
    cfg,        \* settings and module-level client handles, fixed at start-up
    api,        \* the API process: the handler in progress or the last response
    r2,         \* object storage: the keys uploaded
    store,      \* Job Store: task_id -> job record (absent ids have no record)
    session,    \* Job Store: chat_session_<task_id> -> session record
    coll,       \* vector store: collection name -> chunks
    queue,      \* Celery broker: bag of task messages
    disp,       \* process_transcription_task run per job
    summ,       \* process_summarization_task run per job
    idx,        \* initialize_vector_store_task run per job
    provider,   \* the diarizing provider, per job
    requests,   \* per job, the callbacks and summarize requests received
    stream,     \* a client's live stream: the event generator in progress
    uploads     \* per job, the upload-document handlers waiting for the file
                \* content and the uploads answered with success

vars == <<cfg, api, r2, store, session, coll, queue, disp, summ, idx,
          provider, requests, stream, uploads>>

\* the job identifiers of this run of the system
JobIds == DOMAIN disp

\* the requests about jobs that the API has received, over all jobs
RECURSIVE SumOver(_, _)
SumOver(f, S) ==
    IF S = {} THEN 0
    ELSE LET x == CHOOSE y \in S : TRUE IN f[x] + SumOver(f, S \ {x})
TotalRequests == SumOver(requests, DOMAIN requests)

\* ------------------------------------------------------------------ config
\* Settings.__init__ exits the process unless R2 and GOOGLE_API_KEY are set,
\* one of the two transcription keys is set, and the webhook secret and the
\* base URL come with the AssemblyAI key.  The client handles are None when
\* the connection made at import time failed; r2_signs is FALSE when the
\* client raises ClientError on generate_presigned_url.
AllConfigured ==
    [ ASSEMBLYAI_API_KEY |-> "aai-key",
      BACKEND_BASE_URL |-> "https://backend",
      ASSEMBLYAI_WEBHOOK_SECRET |-> TheSecret,
      groq_client |-> TRUE,
      api_redis |-> TRUE, worker_redis |-> TRUE,
      api_r2 |-> TRUE, worker_r2 |-> TRUE,
      r2_signs |-> TRUE ]

Configs ==
    {AllConfigured}
    \cup {[AllConfigured EXCEPT !.groq_client = FALSE]}
    \cup {[AllConfigured EXCEPT !.ASSEMBLYAI_API_KEY = Null]}
    \cup {[AllConfigured EXCEPT !.ASSEMBLYAI_API_KEY = Null,
                                !.BACKEND_BASE_URL = Null,
                                !.ASSEMBLYAI_WEBHOOK_SECRET = Null]}
    \cup {[AllConfigured EXCEPT ![c] = FALSE]
            : c \in {"api_redis", "worker_redis", "api_r2", "worker_r2", "r2_signs"}}

\* ------------------------------------------------------------------ API state
ApiFields(op, pc, t) ==
    [ op |-> op, pc |-> pc, task_id |-> t, diar |-> FALSE, secret |-> Null,
      status |-> Null, err |-> Null, fetched |-> FALSE, data |-> EmptyDict,
      utt |-> NoUtterances, code |-> 0, msg |-> Null,
      collection_name |-> Null, docs |-> <<>>, llm |-> FALSE ]
Respond(op, t, code, msg) ==
    [ApiFields(op, "done", t) EXCEPT !.code = code, !.msg = msg]
ApiIdle == ApiFields("none", "idle", Null)
ApiFree == api.pc = "idle"
\* a response is handed over in the instant it is produced: no worker step
\* falls between a handler's last step and api_return
Running == api.pc # "done"

\* ------------------------------------------------------------------ broker
Msg(name, t, diar) == [name |-> name, task_id |-> t, diar |-> diar]
Delay(q, m) == q (+) SetToBag({m})
Take(q, m) == q (-) SetToBag({m})

\* ------------------------------------------------------------------ store
Exists(s, k) == k \in DOMAIN s
Set(s, k, v) == [x \in (DOMAIN s) \cup {k} |-> IF x = k THEN v ELSE s[x]]
Delete(s, k) == [x \in (DOMAIN s) \ {k} |-> s[x]]
Terminal(st) == st \in {"completed", "failed"}

IdleTask == [pc |-> "idle", diar |-> FALSE, data |-> EmptyDict, err |-> Null, chunks |-> 0]

\* what the diarizing provider holds for a job: the audio, the callback URL
\* registered with the transcript request, the outcome and transcript it
\* reports (the same on every delivery)
NoProviderJob ==
    [ uploaded |-> FALSE, webhook |-> FALSE, outcome |-> Null, error |-> Null,
      utterances |-> NoUtterances ]

\* no stream was opened.  A stream holds the number of events it has
\* emitted, the last of them, and whether an earlier poll found the record
NoStream == [pc |-> "none", task_id |-> Null, polls |-> 0, emitted |-> 0,
             last |-> EmptyDict, seen |-> FALSE]

\* the upload-document requests of a job: the session records held by the
\* handlers that wait for the file content, and the number of requests
\* answered with success=true
NoUploads == [awaiting |-> EmptyBag, succeeded |-> 0]

Init ==
    /\ cfg \in Configs
    /\ api = ApiIdle
    /\ r2 = {}
    /\ store = EmptyDict
    /\ session = EmptyDict
    /\ coll = EmptyDict
    /\ queue = EmptyBag
    /\ disp = [t \in TaskIds |-> IdleTask]
    /\ summ = [t \in TaskIds |-> IdleTask]
    /\ idx = [t \in TaskIds |-> IdleTask]
    /\ provider = [t \in TaskIds |-> NoProviderJob]
    /\ requests = [t \in TaskIds |-> 0]
    /\ stream = NoStream
    /\ uploads = [t \in TaskIds |-> NoUploads]

\* ================================================================ submission
DiarizationConfigured ==
    /\ Truthy(cfg.ASSEMBLYAI_API_KEY)
    /\ Truthy(cfg.BACKEND_BASE_URL)
    /\ Truthy(cfg.ASSEMBLYAI_WEBHOOK_SECRET)

\* a submission check that leaves out the diarization settings
SubmissionRejected_NoDiarizationCheck(d) ==
    ~cfg.api_redis \/ ~cfg.api_r2

\* transcription.py 64-81: the three 503 checks of a submission
SubmissionRejected(d) ==
    ~cfg.api_redis \/ ~cfg.api_r2 \/ (d /\ ~DiarizationConfigured)

\* transcription.py 64-108: the 503 checks, then uuid4 and the upload to R2
create_transcription_check ==
    /\ ApiFree
    /\ \E t \in JobIds : t \notin {k.task_id : k \in r2}
    /\ \E d \in BOOLEAN :
         IF SubmissionRejected(d)
         THEN /\ api' = [Respond("create", Null, 503, "not available") EXCEPT !.diar = d]
              /\ r2' = r2
         ELSE \E t \in JobIds \ {k.task_id : k \in r2} :
                \/ /\ r2' = r2 \cup {[task_id |-> t, key |-> ObjectKey(t)]}
                   /\ api' = [ApiFields("create", "set", t) EXCEPT !.diar = d]
                \/ /\ r2' = r2
                   /\ api' = [Respond("create", Null, 500, "upload failed") EXCEPT !.diar = d]
    /\ UNCHANGED <<uploads, stream, cfg, store, session, coll, queue, disp, summ, idx,
                   provider, requests>>

\* transcription.py 110-116
InitialData(t) ==
    [ status |-> "pending", utterances |-> NoUtterances, error |-> Null,
      audio_url |-> Null, object_key |-> ObjectKey(t) ]

\* a submission that enqueues the task without writing the pending record
create_transcription_set_unwritten ==
    /\ api.op = "create" /\ api.pc = "set"
    /\ api' = [api EXCEPT !.pc = "delay"]
    /\ UNCHANGED <<uploads, stream, cfg, r2, store, session, coll, queue, disp, summ, idx,
                   provider, requests>>

\* transcription.py 117: redis_client.set(task_id, initial_data)
create_transcription_set ==
    /\ api.op = "create" /\ api.pc = "set"
    /\ store' = Set(store, api.task_id, InitialData(api.task_id))
    /\ api' = [api EXCEPT !.pc = "delay"]
    /\ UNCHANGED <<uploads, stream, cfg, r2, session, coll, queue, disp, summ, idx,
                   provider, requests>>

\* transcription.py 119-122: process_transcription_task.delay(...), then 202
create_transcription_delay ==
    /\ api.op = "create" /\ api.pc = "delay"
    /\ queue' = Delay(queue, Msg("process_transcription_task", api.task_id, api.diar))
    /\ api' = [Respond("create", api.task_id, 202, "task_id") EXCEPT !.diar = api.diar]
    /\ UNCHANGED <<uploads, stream, cfg, r2, store, session, coll, disp, summ, idx,
                   provider, requests>>

\* the API process is ready for the next request
api_return ==
    /\ api.pc = "done"
    /\ api' = ApiIdle
    /\ UNCHANGED <<uploads, stream, cfg, r2, store, session, coll, queue, disp, summ, idx,
                   provider, requests>>

\* ================================================================ dispatcher
\* r2_client.py 54-98: None without a client or on ClientError
generate_presigned_url(r2_client, object_key) ==
    IF ~r2_client THEN Null
    ELSE IF cfg.r2_signs THEN PresignedUrl(object_key) ELSE Null

ProcessingFailed(cause) ==
    CASE cause = "groq" -> "Processing failed: Groq client not initialized."
      [] cause = "settings" -> "Processing failed: AssemblyAI settings are not fully configured."
      [] cause = "r2" -> "Processing failed: get_object"
      [] cause = "provider" -> "Processing failed: provider error"

\* a completion record that marks the summary as already requested
SyncCompleted_SummaryPending(text, audio_url) ==
    [ status |-> "completed",
      utterances |-> << << [speaker |-> Null, text |-> text] >> >>,
      error |-> Null, audio_url |-> audio_url, summary |-> Null,
      summary_status |-> "pending", summary_error |-> Null ]

\* tasks.py 128-140: the record of a synchronous completion
SyncCompleted(text, audio_url) ==
    [ status |-> "completed",
      utterances |-> << << [speaker |-> Null, text |-> text] >> >>,
      error |-> Null, audio_url |-> audio_url, summary |-> Null,
      summary_status |-> "not_started", summary_error |-> Null ]

\* a dispatcher that fails the job and leaves its summary pending
DispatchFailed_SummaryPending(error_message) ==
    [ status |-> "failed", utterances |-> NoUtterances,
      error |-> error_message, summary_status |-> "pending" ]

\* a dispatcher that leaves a failed job pending
DispatchFailed_Pending(error_message) ==
    [ status |-> "pending", utterances |-> NoUtterances,
      error |-> error_message, summary_status |-> "failed" ]

\* tasks.py 173-178: the record of a failed dispatch
DispatchFailed(error_message) ==
    [ status |-> "failed", utterances |-> NoUtterances,
      error |-> error_message, summary_status |-> "failed" ]

\* a dispatcher that sends every job to the diarizing provider
UsesCallbackPath_Always(enable_diarization) == TRUE

\* tasks.py 54 and 117: the branch on enable_diarization
UsesCallbackPath(enable_diarization) == enable_diarization

\* a worker process takes the job's transcription task from the broker
TakeTranscription(t, d) ==
    /\ Running
    /\ disp[t].pc = "idle"
    /\ BagIn(Msg("process_transcription_task", t, d), queue)
    /\ queue' = Take(queue, Msg("process_transcription_task", t, d))

\* tasks.py 37-51: the two availability checks
process_transcription_task_unavailable(t) ==
    /\ ~cfg.worker_redis \/ ~cfg.worker_r2
    /\ \E d \in BOOLEAN :
         /\ TakeTranscription(t, d)
         /\ disp' = [disp EXCEPT ![t] = [IdleTask EXCEPT !.pc = "done", !.diar = d]]
    /\ IF ~cfg.worker_redis
       THEN store' = store
       ELSE store' = Set(store, t,
                [ status |-> "failed",
                  error |-> "Object storage service (R2) not available in worker." ])
    /\ UNCHANGED <<uploads, stream, cfg, api, r2, session, coll, summ, idx, provider, requests>>

\* tasks.py 55-115: the outcomes of a dispatch to the diarizing provider
AsyncDispatch(t, d) ==
    LET failed(cause) ==
          disp' = [disp EXCEPT ![t] = [IdleTask EXCEPT !.pc = "except", !.diar = d,
                                          !.err = ProcessingFailed(cause)]]
    IN IF ~DiarizationConfigured
       THEN failed("settings") /\ provider' = provider
       ELSE \/ \* get_object raises
               failed("r2") /\ provider' = provider
            \/ \* the upload to the provider fails
               failed("provider") /\ provider' = provider
            \/ \* uploaded, the transcript request fails
               failed("provider") /\ provider' = [provider EXCEPT ![t].uploaded = TRUE]
            \/ \* uploaded and requested with webhook_url and the secret header;
               \* the response arrives (tasks.py 107-115), or the connection
               \* breaks after the provider took the request (tasks.py 102)
               /\ \/ disp' = [disp EXCEPT ![t] = [IdleTask EXCEPT !.pc = "done", !.diar = d]]
                  \/ failed("provider")
               /\ \E o \in {"completed", "error"}, u \in ProviderUtterances,
                     e \in PayloadErrors :
                    /\ (o = "completed") => (e = Null)
                    /\ (o = "error") => (u = << <<>> >>)
                    /\ provider' = [provider EXCEPT ![t] =
                         [ uploaded |-> TRUE, webhook |-> TRUE, outcome |-> o,
                           error |-> e, utterances |-> u ]]

\* tasks.py 54-115: submit to the diarizing provider with the callback URL
process_transcription_task_async(t) ==
    /\ cfg.worker_redis /\ cfg.worker_r2
    /\ \E d \in BOOLEAN :
         /\ UsesCallbackPath(d)
         /\ TakeTranscription(t, d)
         /\ AsyncDispatch(t, d)
    /\ UNCHANGED <<uploads, stream, cfg, api, r2, store, session, coll, summ, idx, requests>>

\* tasks.py 117-141: transcribe synchronously and write the completed record
process_transcription_task_sync(t) ==
    /\ cfg.worker_redis /\ cfg.worker_r2
    /\ ~UsesCallbackPath(FALSE)
    /\ TakeTranscription(t, FALSE)
    /\ LET failed(cause) ==
             disp' = [disp EXCEPT ![t] = [IdleTask EXCEPT !.pc = "except",
                                             !.err = ProcessingFailed(cause)]]
       IN IF ~cfg.groq_client
          THEN failed("groq") /\ store' = store
          ELSE \/ failed("r2") /\ store' = store
               \/ failed("provider") /\ store' = store
               \/ \E text \in Texts :
                    /\ store' = Set(store, t, SyncCompleted(text,
                           generate_presigned_url(cfg.worker_r2, ObjectKey(t))))
                    /\ disp' = [disp EXCEPT ![t] = [IdleTask EXCEPT !.pc = "delay"]]
    /\ UNCHANGED <<uploads, stream, cfg, api, r2, session, coll, summ, idx, provider, requests>>

\* tasks.py 146: initialize_vector_store_task.delay(task_id)
process_transcription_task_delay(t) ==
    /\ Running
    /\ disp[t].pc = "delay"
    /\ queue' = Delay(queue, Msg("initialize_vector_store_task", t, FALSE))
    /\ disp' = [disp EXCEPT ![t].pc = "done"]
    /\ UNCHANGED <<uploads, stream, cfg, api, r2, store, session, coll, summ, idx,
                   provider, requests>>

\* tasks.py 158-179: any exception of the try block
process_transcription_task_except(t) ==
    /\ Running
    /\ disp[t].pc = "except"
    /\ store' = Set(store, t, DispatchFailed(disp[t].err))
    /\ disp' = [disp EXCEPT ![t].pc = "done", ![t].err = Null]
    /\ UNCHANGED <<uploads, stream, cfg, api, r2, session, coll, queue, summ, idx,
                   provider, requests>>

\* ================================================================ callback
\* a receiver that stores the transcript and leaves the job pending
CallbackCompleted_Pending(utterances, audio_url) ==
    [ status |-> "pending", utterances |-> utterances, error |-> Null,
      audio_url |-> audio_url, summary |-> Null,
      summary_status |-> "not_started", summary_error |-> Null ]

\* transcription.py 217-225 and 246-254: the record of a callback completion
CallbackCompleted(utterances, audio_url) ==
    [ status |-> "completed", utterances |-> utterances, error |-> Null,
      audio_url |-> audio_url, summary |-> Null,
      summary_status |-> "not_started", summary_error |-> Null ]

\* a receiver that leaves the job pending when the fetch fails
CallbackFetchFailed_Pending ==
    [ status |-> "pending",
      error |-> "Failed to retrieve transcript data after completion." ]

\* transcription.py 272-275
CallbackFetchFailed ==
    [ status |-> "failed",
      error |-> "Failed to retrieve transcript data after completion." ]

\* a receiver that stores the provider's error field as it came
CallbackError_NoFallback(error) ==
    [ status |-> "failed", utterances |-> NoUtterances, error |-> error,
      audio_url |-> Null, summary_status |-> "failed" ]

\* transcription.py 279-286
CallbackError(error) ==
    [ status |-> "failed", utterances |-> NoUtterances,
      error |-> IF Truthy(error) THEN error
                ELSE "AssemblyAI processing failed with an unknown error.",
      audio_url |-> Null, summary_status |-> "failed" ]

\* a receiver that treats every status other than completed as an error
WebhookAuth_ProgressIsError(t, h, st, e) ==
    LET answer(code, msg) ==
            [Respond("webhook", t, code, msg) EXCEPT !.secret = h, !.status = st]
        go(pc) ==
            [ApiFields("webhook", pc, t) EXCEPT !.secret = h, !.status = st, !.err = e]
    IN  IF ~cfg.api_redis
        THEN answer(200, "Acknowledged, but internal error occurred.")
        ELSE IF ~Truthy(cfg.ASSEMBLYAI_WEBHOOK_SECRET)
        THEN answer(500, "not configured")
        ELSE IF ~Truthy(h)
        THEN answer(401, "Missing webhook authentication header.")
        ELSE IF h # cfg.ASSEMBLYAI_WEBHOOK_SECRET
        THEN answer(403, "Invalid webhook authentication.")
        ELSE IF st = "completed" THEN go("fetch")
        ELSE go("error")

\* a receiver that checks that a secret was sent, not which
WebhookAuth_NoMismatchCheck(t, h, st, e) ==
    LET answer(code, msg) ==
            [Respond("webhook", t, code, msg) EXCEPT !.secret = h, !.status = st]
        go(pc) ==
            [ApiFields("webhook", pc, t) EXCEPT !.secret = h, !.status = st, !.err = e]
    IN  IF ~cfg.api_redis
        THEN answer(200, "Acknowledged, but internal error occurred.")
        ELSE IF ~Truthy(cfg.ASSEMBLYAI_WEBHOOK_SECRET)
        THEN answer(500, "not configured")
        ELSE IF ~Truthy(h)
        THEN answer(401, "Missing webhook authentication header.")
        ELSE IF st = "completed" THEN go("fetch")
        ELSE IF st = "error" THEN go("error")
        ELSE answer(200, "Webhook received successfully.")

\* a receiver that fetches the transcript of a completed payload first and
\* checks the secret afterwards
WebhookAuth_FetchFirst(t, h, st, e) ==
    LET answer(code, msg) ==
            [Respond("webhook", t, code, msg) EXCEPT !.secret = h, !.status = st,
                                                      !.fetched = (st = "completed")]
        go(pc) ==
            [ApiFields("webhook", pc, t) EXCEPT !.secret = h, !.status = st, !.err = e]
    IN  IF ~cfg.api_redis
        THEN [answer(200, "Acknowledged, but internal error occurred.") EXCEPT !.fetched = FALSE]
        ELSE IF ~Truthy(cfg.ASSEMBLYAI_WEBHOOK_SECRET)
        THEN answer(500, "not configured")
        ELSE IF ~Truthy(h)
        THEN answer(401, "Missing webhook authentication header.")
        ELSE IF h # cfg.ASSEMBLYAI_WEBHOOK_SECRET
        THEN answer(403, "Invalid webhook authentication.")
        ELSE IF st = "completed" THEN go("fetch")
        ELSE IF st = "error" THEN go("error")
        ELSE answer(200, "Webhook received successfully.")

\* transcription.py 170-200: the Redis check, the secret checks and the
\* dispatch on payload.status, for a request with header h and status st
WebhookAuth(t, h, st, e) ==
    LET answer(code, msg) ==
            [Respond("webhook", t, code, msg) EXCEPT !.secret = h, !.status = st]
        go(pc) ==
            [ApiFields("webhook", pc, t) EXCEPT !.secret = h, !.status = st, !.err = e]
    IN  IF ~cfg.api_redis
        THEN answer(200, "Acknowledged, but internal error occurred.")
        ELSE IF ~Truthy(cfg.ASSEMBLYAI_WEBHOOK_SECRET)
        THEN answer(500, "not configured")
        ELSE IF ~Truthy(h)
        THEN answer(401, "Missing webhook authentication header.")
        ELSE IF h # cfg.ASSEMBLYAI_WEBHOOK_SECRET
        THEN answer(403, "Invalid webhook authentication.")
        ELSE IF st = "completed" THEN go("fetch")
        ELSE IF st = "error" THEN go("error")
        ELSE answer(200, "Webhook received successfully.")

\* POST /webhooks/assemblyai from the diarizing provider: it holds the
\* configured secret and posts for the jobs whose callback URL it was given,
\* with the outcome it holds or a progress status.
assemblyai_webhook_auth ==
    /\ ApiFree
    /\ \E t \in TaskIds, st \in PayloadStatuses :
         /\ provider[t].webhook
         /\ requests[t] < MaxRequests
         /\ st \in {provider[t].outcome, "processing"}
         /\ requests' = [requests EXCEPT ![t] = @ + 1]
         /\ api' = WebhookAuth(t, TheSecret, st,
                       IF st = "error" THEN provider[t].error ELSE Null)
    /\ UNCHANGED <<uploads, stream, cfg, r2, store, session, coll, queue, disp, summ, idx,
                   provider>>

\* the provider's callback that carries the outcome of the transcription
assemblyai_webhook_outcome ==
    /\ ApiFree
    /\ \E t \in TaskIds :
         /\ provider[t].webhook
         /\ requests[t] < MaxRequests
         /\ requests' = [requests EXCEPT ![t] = @ + 1]
         /\ api' = WebhookAuth(t, TheSecret, provider[t].outcome, provider[t].error)
    /\ UNCHANGED <<uploads, stream, cfg, r2, store, session, coll, queue, disp, summ, idx,
                   provider>>

\* POST /webhooks/assemblyai from anyone else: any job id, any payload, and
\* a header that is absent, empty or not the configured secret
assemblyai_webhook_forged ==
    /\ ApiFree
    /\ \E t \in TaskIds, h \in SecretHeaders \ {TheSecret}, st \in PayloadStatuses,
          e \in PayloadErrors :
         /\ (st # "error") => (e = Null)
         /\ api' = WebhookAuth(t, h, st, e)
    /\ UNCHANGED <<uploads, stream, cfg, r2, store, session, coll, queue, disp, summ, idx,
                   provider, requests>>

\* transcription.py 202-209: GET the transcript from the provider; a
\* RequestException goes to the except clause
assemblyai_webhook_fetch ==
    /\ api.op = "webhook" /\ api.pc = "fetch"
    /\ \/ api' = [api EXCEPT !.pc = "get", !.fetched = TRUE,
                             !.utt = provider[api.task_id].utterances]
       \/ api' = [api EXCEPT !.pc = "except", !.fetched = TRUE]
    /\ UNCHANGED <<uploads, stream, cfg, r2, store, session, coll, queue, disp, summ, idx,
                   provider, requests>>

\* transcription.py 211-212 and 238-239: redis_client.get(task_id)
assemblyai_webhook_get ==
    /\ api.op = "webhook" /\ api.pc = "get"
    /\ api' = IF Exists(store, api.task_id)
              THEN [api EXCEPT !.pc = "set", !.data = store[api.task_id]]
              ELSE [api EXCEPT !.pc = "lost_set"]
    /\ UNCHANGED <<uploads, stream, cfg, r2, store, session, coll, queue, disp, summ, idx,
                   provider, requests>>

\* a receiver that acknowledges a callback for a lost record without a write
assemblyai_webhook_lost_ack ==
    /\ api.op = "webhook" /\ api.pc = "lost_set"
    /\ api' = [api EXCEPT !.pc = "lost_delay"]
    /\ UNCHANGED <<uploads, stream, cfg, r2, store, session, coll, queue, disp, summ, idx,
                   provider, requests>>

\* transcription.py 217-226: no record, write a completed one
assemblyai_webhook_lost_set ==
    /\ api.op = "webhook" /\ api.pc = "lost_set"
    /\ store' = Set(store, api.task_id, CallbackCompleted(api.utt, Null))
    /\ api' = [api EXCEPT !.pc = "lost_delay"]
    /\ UNCHANGED <<uploads, stream, cfg, r2, session, coll, queue, disp, summ, idx,
                   provider, requests>>

WebhookAnswer(msg) ==
    [Respond("webhook", api.task_id, 200, msg)
        EXCEPT !.secret = api.secret, !.status = api.status, !.fetched = api.fetched]

\* transcription.py 229-236
assemblyai_webhook_lost_delay ==
    /\ api.op = "webhook" /\ api.pc = "lost_delay"
    /\ queue' = Delay(queue, Msg("initialize_vector_store_task", api.task_id, FALSE))
    /\ api' = WebhookAnswer("Webhook received, but task data lost.")
    /\ UNCHANGED <<uploads, stream, cfg, r2, store, session, coll, disp, summ, idx,
                   provider, requests>>

\* transcription.py 240-255: audio_url from the record's object_key, then set
assemblyai_webhook_set ==
    /\ api.op = "webhook" /\ api.pc = "set"
    /\ LET object_key == Get(api.data, "object_key")
           audio_url == IF Truthy(object_key)
                        THEN generate_presigned_url(cfg.api_r2, object_key)
                        ELSE Null
       IN store' = Set(store, api.task_id, CallbackCompleted(api.utt, audio_url))
    /\ api' = [api EXCEPT !.pc = "delay", !.data = EmptyDict]
    /\ UNCHANGED <<uploads, stream, cfg, r2, session, coll, queue, disp, summ, idx,
                   provider, requests>>

\* transcription.py 258-260 and 289-291
assemblyai_webhook_delay ==
    /\ api.op = "webhook" /\ api.pc = "delay"
    /\ queue' = Delay(queue, Msg("initialize_vector_store_task", api.task_id, FALSE))
    /\ api' = WebhookAnswer("Webhook received successfully.")
    /\ UNCHANGED <<uploads, stream, cfg, r2, store, session, coll, disp, summ, idx,
                   provider, requests>>

\* transcription.py 262-276 and 289-291: the transcript fetch failed
assemblyai_webhook_except ==
    /\ api.op = "webhook" /\ api.pc = "except"
    /\ store' = Set(store, api.task_id, CallbackFetchFailed)
    /\ api' = WebhookAnswer("Webhook received successfully.")
    /\ UNCHANGED <<uploads, stream, cfg, r2, session, coll, queue, disp, summ, idx,
                   provider, requests>>

\* transcription.py 278-291: payload status error
assemblyai_webhook_error ==
    /\ api.op = "webhook" /\ api.pc = "error"
    /\ store' = Set(store, api.task_id, CallbackError(api.err))
    /\ api' = WebhookAnswer("Webhook received successfully.")
    /\ UNCHANGED <<uploads, stream, cfg, r2, session, coll, queue, disp, summ, idx,
                   provider, requests>>

\* ================================================================ summarize
\* a summarize handler without the check that transcription is complete
SummarizeGet_NoStatusCheck(t) ==
    IF ~cfg.api_redis
    THEN Respond("summarize", t, 503, "Task queue service (Redis) not available.")
    ELSE IF ~Exists(store, t)
    THEN Respond("summarize", t, 404, "Task not found.")
    ELSE IF Get(store[t], "summary_status") \in {"pending", "completed"}
    THEN Respond("summarize", t, 202, "Summarization already in progress or completed.")
    ELSE [ApiFields("summarize", "set", t) EXCEPT !.data = store[t]]

\* transcription.py 127-148: the read and the early returns
SummarizeGet(t) ==
    IF ~cfg.api_redis
    THEN Respond("summarize", t, 503, "Task queue service (Redis) not available.")
    ELSE IF ~Exists(store, t)
    THEN Respond("summarize", t, 404, "Task not found.")
    ELSE IF Get(store[t], "status") # "completed"
    THEN Respond("summarize", t, 400, "Transcription is not yet complete.")
    ELSE IF Get(store[t], "summary_status") \in {"pending", "completed"}
    THEN Respond("summarize", t, 202, "Summarization already in progress or completed.")
    ELSE [ApiFields("summarize", "set", t) EXCEPT !.data = store[t]]

\* POST /transcribe/{task_id}/summarize
summarize_transcription_get ==
    /\ ApiFree
    /\ \E t \in TaskIds :
         /\ requests[t] < MaxRequests
         /\ requests' = [requests EXCEPT ![t] = @ + 1]
         /\ api' = SummarizeGet(t)
    /\ UNCHANGED <<uploads, stream, cfg, r2, store, session, coll, queue, disp, summ, idx, provider>>

\* transcription.py 150-155: write summary_status=pending into the record
\* read, enqueue the task, answer 202
summarize_transcription_set ==
    /\ api.op = "summarize" /\ api.pc = "set"
    /\ store' = Set(store, api.task_id, Put(api.data, "summary_status", "pending"))
    /\ queue' = Delay(queue, Msg("process_summarization_task", api.task_id, FALSE))
    /\ api' = Respond("summarize", api.task_id, 202, "Summarization task started.")
    /\ UNCHANGED <<uploads, stream, cfg, r2, session, coll, disp, summ, idx, provider, requests>>

\* ================================================================ summarization task
\* a task that records no cause
SummarizationFailed_Silent(cause) == Null

\* tasks.py 236: f"Summarization failed: {str(e)}" for the exceptions of 197-219
SummarizationFailed(cause) ==
    CASE cause = "missing" -> "Summarization failed: Task data not found in Redis."
      [] cause = "status" -> "Summarization failed: Transcription is not complete, cannot summarize."
      [] cause = "utterances" -> "Summarization failed: No utterances found to summarize."
      [] cause = "generate" -> "Summarization failed: generate_summary"

\* tasks.py 187-219: read the record, check it, generate the summary
process_summarization_task_get(t) ==
    /\ Running
    /\ summ[t].pc = "idle"
    /\ BagIn(Msg("process_summarization_task", t, FALSE), queue)
    /\ queue' = Take(queue, Msg("process_summarization_task", t, FALSE))
    /\ LET failed(cause) ==
             summ' = [summ EXCEPT ![t].pc = "except", ![t].err = SummarizationFailed(cause)]
       IN IF ~cfg.worker_redis THEN summ' = summ
          ELSE IF ~Exists(store, t) THEN failed("missing")
          ELSE IF Get(store[t], "status") # "completed" THEN failed("status")
          ELSE IF ~TruthyList(GetUtterances(store[t])) THEN failed("utterances")
          ELSE \/ summ' = [summ EXCEPT ![t].pc = "set", ![t].data = store[t]]
               \/ failed("generate")
    /\ UNCHANGED <<uploads, stream, cfg, api, r2, store, session, coll, disp, idx,
                   provider, requests>>

\* tasks.py 221-224: the record read at the start, with the summary
process_summarization_task_set(t) ==
    /\ Running
    /\ summ[t].pc = "set"
    /\ store' = Set(store, t,
            Put(Put(summ[t].data, "summary", "the summary"), "summary_status", "completed"))
    /\ summ' = [summ EXCEPT ![t] = IdleTask]
    /\ UNCHANGED <<uploads, stream, cfg, api, r2, session, coll, queue, disp, idx,
                   provider, requests>>

\* tasks.py 243-246: the except clause reads the record again
process_summarization_task_except_get(t) ==
    /\ Running
    /\ summ[t].pc = "except"
    /\ summ' = IF Exists(store, t)
               THEN [summ EXCEPT ![t].pc = "except_set", ![t].data = store[t]]
               ELSE [summ EXCEPT ![t] = IdleTask]
    /\ UNCHANGED <<uploads, stream, cfg, api, r2, store, session, coll, queue, disp, idx,
                   provider, requests>>

\* tasks.py 247-249
process_summarization_task_except_set(t) ==
    /\ Running
    /\ summ[t].pc = "except_set"
    /\ store' = Set(store, t,
            Put(Put(summ[t].data, "summary_status", "failed"), "summary_error", summ[t].err))
    /\ summ' = [summ EXCEPT ![t] = IdleTask]
    /\ UNCHANGED <<uploads, stream, cfg, api, r2, session, coll, queue, disp, idx,
                   provider, requests>>

\* ================================================================ indexer
\* vector_store.py 147-171: one document per utterance with non-blank text;
\* each is shorter than the chunk size and gives one chunk
TranscriptChunks(L, t) ==
    LET keep == {i \in 1..Len(L) : L[i].text # ""}
        RECURSIVE build(_)
        build(i) == IF i > Len(L) THEN <<>>
                    ELSE (IF i \in keep
                          THEN << [ source |-> "transcript", task_id |-> t,
                                    speaker |-> L[i].speaker,
                                    utterance_index |-> i - 1,
                                    text |-> L[i].text ] >>
                          ELSE <<>>) \o build(i + 1)
    IN build(1)

\* vector_store.py 138-201: get or create the collection, append the chunks
add_transcript_to_collection(c, name, L, t) ==
    Set(c, name, (IF Exists(c, name) THEN c[name] ELSE <<>>) \o TranscriptChunks(L, t))

\* rag_tasks.py 63-70
ChatSessionData(t, chunks_created) ==
    [ task_id |-> t, collection_name |-> CollectionName(t), initialized |-> TRUE,
      transcript_chunks |-> chunks_created, uploaded_documents |-> <<>>,
      auto_initialized |-> TRUE ]

\* rag_tasks.py 19-52: read the record; return unless completed with utterances
initialize_vector_store_task_get(t) ==
    /\ Running
    /\ idx[t].pc = "idle"
    /\ BagIn(Msg("initialize_vector_store_task", t, FALSE), queue)
    /\ queue' = Take(queue, Msg("initialize_vector_store_task", t, FALSE))
    /\ idx' = IF /\ cfg.worker_redis
                 /\ Exists(store, t)
                 /\ Get(store[t], "status") = "completed"
                 /\ TruthyList(GetUtterances(store[t]))
              THEN [idx EXCEPT ![t].pc = "add", ![t].data = store[t]]
              ELSE idx
    /\ UNCHANGED <<uploads, stream, cfg, api, r2, store, session, coll, disp, summ,
                   provider, requests>>

\* rag_tasks.py 54-60: embed and append the transcript, or raise
initialize_vector_store_task_add(t) ==
    /\ Running
    /\ idx[t].pc = "add"
    /\ \/ /\ coll' = add_transcript_to_collection(coll, CollectionName(t),
                         GetUtterances(idx[t].data)[1], t)
          /\ idx' = [idx EXCEPT ![t].pc = "session",
                        ![t].chunks = Len(TranscriptChunks(GetUtterances(idx[t].data)[1], t))]
       \/ /\ coll' = coll
          /\ idx' = [idx EXCEPT ![t].pc = "except", ![t].data = EmptyDict,
                        ![t].err = "embedding failed"]
    /\ UNCHANGED <<uploads, stream, cfg, api, r2, store, session, queue, disp, summ,
                   provider, requests>>

\* rag_tasks.py 62-71
initialize_vector_store_task_session(t) ==
    /\ Running
    /\ idx[t].pc = "session"
    /\ session' = Set(session, t, ChatSessionData(t, idx[t].chunks))
    /\ idx' = [idx EXCEPT ![t].pc = "set"]
    /\ UNCHANGED <<uploads, stream, cfg, api, r2, store, coll, queue, disp, summ,
                   provider, requests>>

\* rag_tasks.py 73-77: the record read at the start, with the rag fields
initialize_vector_store_task_set(t) ==
    /\ Running
    /\ idx[t].pc = "set"
    /\ store' = Set(store, t,
            Put(Put(Put(idx[t].data, "rag_ready", TRUE),
                    "rag_collection", CollectionName(t)),
                "rag_chunks", idx[t].chunks))
    /\ idx' = [idx EXCEPT ![t] = IdleTask]
    /\ UNCHANGED <<uploads, stream, cfg, api, r2, session, coll, queue, disp, summ,
                   provider, requests>>

\* rag_tasks.py 97-102: the except clause reads the record again
initialize_vector_store_task_except_get(t) ==
    /\ Running
    /\ idx[t].pc = "except"
    /\ idx' = IF Exists(store, t)
              THEN [idx EXCEPT ![t].pc = "except_set", ![t].data = store[t]]
              ELSE [idx EXCEPT ![t] = IdleTask]
    /\ UNCHANGED <<uploads, stream, cfg, api, r2, store, session, coll, queue, disp, summ,
                   provider, requests>>

\* rag_tasks.py 103-105
initialize_vector_store_task_except_set(t) ==
    /\ Running
    /\ idx[t].pc = "except_set"
    /\ store' = Set(store, t,
            Put(Put(idx[t].data, "rag_ready", FALSE), "rag_error", idx[t].err))
    /\ idx' = [idx EXCEPT ![t] = IdleTask]
    /\ UNCHANGED <<uploads, stream, cfg, api, r2, session, coll, queue, disp, summ,
                   provider, requests>>

\* ================================================================ reads
\* polls of one live stream
MaxPolls == 2

\* a response model that passes the record through
TaskStatus_Unfiltered(d) == d

\* transcription.py 42-49 and 330: response_model=TaskStatus keeps the seven
\* declared fields, null where the record has none, and drops every other
TaskStatus(d) ==
    [ status |-> d.status, utterances |-> GetUtterances(d),
      error |-> Get(d, "error"), audio_url |-> Get(d, "audio_url"),
      summary |-> Get(d, "summary"), summary_status |-> Get(d, "summary_status"),
      summary_error |-> Get(d, "summary_error") ]

\* transcription.py 330-342: GET /transcribe/status/{task_id}
get_status ==
    /\ ApiFree
    /\ \E t \in TaskIds :
         api' = IF ~cfg.api_redis
                THEN Respond("status", t, 503, "Task queue service (Redis) not available.")
                ELSE IF ~Exists(store, t)
                THEN Respond("status", t, 404, "Task not found.")
                ELSE [Respond("status", t, 200, "TaskStatus")
                        EXCEPT !.data = TaskStatus(Pop(store[t], "object_key"))]
    /\ UNCHANGED <<uploads, stream, cfg, r2, store, session, coll, queue, disp, summ, idx,
                   provider, requests>>

\* transcription.py 296 and 317: the events that are not job records
RedisNotAvailable == [status |-> "failed", error |-> "Redis connection not available."]
\* a generator that reports a missing record as still pending
TaskNotFound_Pending == [status |-> "pending", error |-> "Task not found."]
TaskNotFound == [status |-> "failed", error |-> "Task not found."]

\* a generator that ends on a failed transcription only
StreamEnds_OnFailedOnly(task_data) == task_data.status = "failed"

\* a generator that also ends on a completed transcription
StreamEnds_OnCompleted(task_data) ==
    \/ task_data.status \in {"failed", "completed"}
    \/ Get(task_data, "summary_status") \in {"completed", "failed"}

\* transcription.py 311-315: the test that ends the stream after an event
StreamEnds(task_data) ==
    \/ task_data.status = "failed"
    \/ Get(task_data, "summary_status") \in {"completed", "failed"}

\* transcription.py 323-327 and 295-298: GET /transcribe/stream-status/{task_id}
stream_status ==
    /\ stream.pc = "none"
    /\ \E t \in TaskIds :
         stream' = IF ~cfg.api_redis
                   THEN [NoStream EXCEPT !.pc = "ended", !.task_id = t,
                                         !.emitted = 1, !.last = RedisNotAvailable]
                   ELSE [NoStream EXCEPT !.pc = "poll", !.task_id = t]
    /\ UNCHANGED <<uploads, cfg, api, r2, store, session, coll, queue, disp, summ, idx,
                   provider, requests>>

\* polls and events are counted up to MaxPolls; the loop itself has no bound
Counted(n) == IF n < MaxPolls THEN n + 1 ELSE n

\* a generator that polls again at once after an event that does not end it
AfterEvent_NoSleep(task_data) == IF StreamEnds(task_data) THEN "ended" ELSE "poll"

\* transcription.py 311-320: break after a terminal event, otherwise
\* asyncio.sleep(2) before the next turn of the loop
AfterEvent(task_data) == IF StreamEnds(task_data) THEN "ended" ELSE "sleep"

\* a generator that revokes the job's queued tasks when its client leaves
event_generator_poll_revoke ==
    /\ stream.pc = "poll"
    /\ stream' = [stream EXCEPT !.pc = "disconnected"]
    /\ queue' = EmptyBag
    /\ UNCHANGED <<uploads, cfg, api, r2, store, session, coll, disp, summ, idx,
                   provider, requests>>

\* transcription.py 300-318: one turn of the loop, up to the sleep
event_generator_poll ==
    /\ stream.pc = "poll"
    /\ \/ \* request.is_disconnected()
          stream' = [stream EXCEPT !.pc = "disconnected"]
       \/ IF Exists(store, stream.task_id)
          THEN LET task_data == Pop(store[stream.task_id], "object_key")
               IN stream' = [stream EXCEPT
                               !.last = task_data, !.emitted = Counted(@),
                               !.polls = Counted(@), !.seen = TRUE,
                               !.pc = AfterEvent(task_data)]
          ELSE stream' = [stream EXCEPT !.last = TaskNotFound, !.emitted = Counted(@),
                                        !.polls = Counted(@), !.pc = "ended"]
    /\ UNCHANGED <<uploads, cfg, api, r2, store, session, coll, queue, disp, summ, idx,
                   provider, requests>>

\* transcription.py 320: await asyncio.sleep(2), then the top of the loop
event_generator_sleep ==
    /\ stream.pc = "sleep"
    /\ stream' = [stream EXCEPT !.pc = "poll"]
    /\ UNCHANGED <<uploads, cfg, api, r2, store, session, coll, queue, disp, summ, idx,
                   provider, requests>>

\* ================================================================ storage policy
\* the Job Store's backing implementation lets a job record expire
job_store_expire(t) ==
    /\ Running
    /\ Exists(store, t)
    /\ store' = Delete(store, t)
    /\ UNCHANGED <<uploads, stream, cfg, api, r2, session, coll, queue, disp, summ, idx,
                   provider, requests>>

Next ==
    \/ create_transcription_check
    \/ create_transcription_set
    \/ create_transcription_delay
    \/ api_return
    \/ assemblyai_webhook_auth
    \/ assemblyai_webhook_fetch
    \/ assemblyai_webhook_get
    \/ assemblyai_webhook_lost_set
    \/ assemblyai_webhook_lost_delay
    \/ assemblyai_webhook_set
    \/ assemblyai_webhook_delay
    \/ assemblyai_webhook_except
    \/ assemblyai_webhook_error
    \/ summarize_transcription_get
    \/ summarize_transcription_set
    \/ get_status
    \/ \E t \in TaskIds :
         \/ process_transcription_task_unavailable(t)
         \/ process_transcription_task_async(t)
         \/ process_transcription_task_sync(t)
         \/ process_transcription_task_delay(t)
         \/ process_transcription_task_except(t)
         \/ process_summarization_task_get(t)
         \/ process_summarization_task_set(t)
         \/ process_summarization_task_except_get(t)
         \/ process_summarization_task_except_set(t)
         \/ initialize_vector_store_task_get(t)
         \/ initialize_vector_store_task_add(t)
         \/ initialize_vector_store_task_session(t)
         \/ initialize_vector_store_task_set(t)
         \/ initialize_vector_store_task_except_get(t)
         \/ initialize_vector_store_task_except_set(t)
         \/ job_store_expire(t)

Spec == Init /\ [][Next]_vars

\* ================================================================ chat: ask
\* rag_engine.py 138: getattr(settings, "RAG_TOP_K_RESULTS", 5)
RAG_TOP_K_RESULTS == 5

\* an engine that reports an empty retrieval as a failure
NoInformation_Failure ==
    [ answer |-> "I encountered an error while processing your question", sources |-> <<>>,
      context_used |-> <<>>, success |-> FALSE, error |-> "no documents" ]

\* rag_engine.py 160-165: the answer when retrieval returns nothing
NoInformation ==
    [ answer |-> "I don't have any relevant information to answer this question.",
      sources |-> <<>>, context_used |-> <<>>, success |-> TRUE ]

\* an engine that lets the exception reach its caller
AskFailed_Raises(e) == [ raised |-> e ]

\* rag_engine.py 225-242: the except clause of ask_question
AskFailed(e) ==
    [ answer |-> "I encountered an error while processing your question", sources |-> <<>>,
      context_used |-> <<>>, success |-> FALSE, error |-> e ]

\* rag_engine.py 70-111: one formatted part per retrieved document; the
\* context string is held as the sequence of its parts, "" as <<>>
FormatContext(docs) ==
    [i \in 1..Len(docs) |->
       [ source_info |-> IF docs[i].source = "transcript"
                         THEN docs[i].speaker ELSE docs[i].file_name,
         page_content |-> docs[i].text ]]

\* rag_engine.py 176-205: the source entry of each retrieved document
Sources(docs) ==
    [i \in 1..Len(docs) |->
       IF docs[i].source = "transcript"
       THEN [ type |-> "transcript", content_preview |-> docs[i].text,
              speaker |-> docs[i].speaker,
              utterance_index |-> docs[i].utterance_index ]
       ELSE [ type |-> "uploaded", content_preview |-> docs[i].text,
              file_name |-> docs[i].file_name ]]

\* rag_engine.py 218-223
AskAnswered(docs) ==
    [ answer |-> "an answer from the model", sources |-> Sources(docs),
      context_used |-> FormatContext(docs), success |-> TRUE ]

\* vector_store.py 273-293: the k nearest documents of the collection
similarity_search(c, name, k) ==
    IF Exists(c, name) THEN SubSeq(c[name], 1, IF Len(c[name]) < k THEN Len(c[name]) ELSE k)
    ELSE <<>>

\* vector_store.py 96-128: an absent collection is created empty and saved
get_or_create_collection(c, name) ==
    IF Exists(c, name) THEN c ELSE Set(c, name, <<>>)

\* chat.py 22-27 and 165: ChatResponse(**result), error defaults to None
ChatResponse(result) ==
    IF "error" \in DOMAIN result THEN result ELSE Put(result, "error", Null)

\* chat.py 149-181: the engine's result is returned with 200; an exception
\* of the call is answered 500
AskReturn(a, r) ==
    IF "raised" \in DOMAIN r
    THEN [Respond("ask", a.task_id, 500, "Failed to process question")
            EXCEPT !.collection_name = a.collection_name, !.docs = a.docs,
                   !.llm = a.llm]
    ELSE [Respond("ask", a.task_id, 200, "ChatResponse")
            EXCEPT !.collection_name = a.collection_name, !.docs = a.docs,
                   !.llm = a.llm, !.data = ChatResponse(r)]

\* chat.py 127-146: POST /chat/{task_id}/ask up to the call of the engine
ask_question_get ==
    /\ ApiFree
    /\ \E t \in JobIds :
         /\ TotalRequests < MaxRequests
         /\ requests' = [requests EXCEPT ![t] = @ + 1]
         /\ api' = IF ~cfg.api_redis
                   THEN Respond("ask", t, 503, "Task queue service (Redis) not available.")
                   ELSE IF ~Exists(session, t)
                   THEN Respond("ask", t, 404, "Chat session not found.")
                   ELSE IF ~Truthy(Get(session[t], "collection_name"))
                   THEN Respond("ask", t, 500, "Invalid chat session data.")
                   ELSE [ApiFields("ask", "search", t)
                           EXCEPT !.collection_name = session[t].collection_name]
    /\ UNCHANGED <<uploads, stream, cfg, r2, store, session, coll, queue, disp, summ, idx,
                   provider>>

\* rag_engine.py 133-168: the initialization test, retrieval and context
\* formatting.  The engine's llm and qa_prompt are inputs of the call; the
\* retrieved documents are kept as <<docs>>, <<>> before retrieval.
rag_engine_search ==
    /\ api.op = "ask" /\ api.pc = "search"
    /\ \E initialized \in BOOLEAN :
         IF ~initialized
         THEN /\ api' = AskReturn(api, AskFailed("RAG engine not properly initialized"))
              /\ coll' = coll
         ELSE \/ \* get_or_create_collection or the embedding of the query raises
                 /\ api' = AskReturn(api, AskFailed("retrieval failed"))
                 /\ coll' = coll
              \/ /\ coll' = get_or_create_collection(coll, api.collection_name)
                 /\ LET relevant_docs ==
                          similarity_search(coll', api.collection_name, RAG_TOP_K_RESULTS)
                        searched == [api EXCEPT !.docs = <<relevant_docs>>]
                    IN IF relevant_docs = <<>>
                       THEN api' = AskReturn(searched, NoInformation)
                       ELSE \/ api' = AskReturn(searched, AskFailed("formatting failed"))
                            \/ api' = [searched EXCEPT !.pc = "invoke"]
    /\ UNCHANGED <<uploads, stream, cfg, r2, store, session, queue, disp, summ, idx,
                   provider, requests>>

\* rag_engine.py 170-223: the call of the language model and the result
rag_engine_invoke ==
    /\ api.op = "ask" /\ api.pc = "invoke"
    /\ LET called == [api EXCEPT !.llm = TRUE]
           docs == api.docs[1]
       IN \/ api' = AskReturn(called, AskFailed("model call failed"))
          \/ api' = AskReturn(called, AskAnswered(docs))
    /\ UNCHANGED <<uploads, stream, cfg, r2, store, session, coll, queue, disp, summ, idx,
                   provider, requests>>

\* the pipeline without diarization callbacks, with the chat questions
NextChat ==
    \/ create_transcription_check
    \/ create_transcription_set
    \/ create_transcription_delay
    \/ api_return
    \/ ask_question_get
    \/ rag_engine_search
    \/ rag_engine_invoke
    \/ \E t \in TaskIds :
         \/ process_transcription_task_unavailable(t)
         \/ process_transcription_task_async(t)
         \/ process_transcription_task_sync(t)
         \/ process_transcription_task_delay(t)
         \/ process_transcription_task_except(t)
         \/ initialize_vector_store_task_get(t)
         \/ initialize_vector_store_task_add(t)
         \/ initialize_vector_store_task_session(t)
         \/ initialize_vector_store_task_set(t)
         \/ initialize_vector_store_task_except_get(t)
         \/ initialize_vector_store_task_except_set(t)
         \/ job_store_expire(t)

SpecChat == Init /\ [][NextChat]_vars

\* ================================================================ chat: knowledge base
\* the document a client uploads, as document_processor returns it
UploadedDocument == [file_name |-> "notes.txt", text |-> "notes"]

\* vector_store.py 215-259: get or create the collection, append the
\* document's chunk with the upload metadata
add_document_to_collection(c, name, document) ==
    Set(c, name, (IF Exists(c, name) THEN c[name] ELSE <<>>)
                   \o << [ source |-> "uploaded_document",
                           file_name |-> document.file_name,
                           text |-> document.text ] >>)

\* vector_store.py 307-328: remove the collection's files
delete_collection(c, name) == IF Exists(c, name) THEN Delete(c, name) ELSE c

\* chat.py 51-74: POST /chat/{task_id}/initialize up to the indexing call
initialize_knowledge_base_get ==
    /\ ApiFree
    /\ \E t \in JobIds :
         /\ TotalRequests < MaxRequests
         /\ requests' = [requests EXCEPT ![t] = @ + 1]
         /\ api' = IF ~cfg.api_redis
                   THEN Respond("initialize", t, 503, "Task queue service (Redis) not available.")
                   ELSE IF ~Exists(store, t)
                   THEN Respond("initialize", t, 404, "Transcript task not found.")
                   ELSE IF Get(store[t], "status") # "completed"
                   THEN Respond("initialize", t, 400,
                                "Transcription must be completed before initializing chat.")
                   ELSE IF ~TruthyList(GetUtterances(store[t]))
                   THEN Respond("initialize", t, 400, "No transcript content found.")
                   ELSE [ApiFields("initialize", "add", t)
                           EXCEPT !.utt = GetUtterances(store[t]),
                                  !.collection_name = CollectionName(t)]
    /\ UNCHANGED <<uploads, stream, cfg, r2, store, session, coll, queue, disp, summ, idx,
                   provider>>

\* chat.py 76-82 and 111-119: index the transcript, or answer 500
initialize_knowledge_base_add ==
    /\ api.op = "initialize" /\ api.pc = "add"
    /\ \/ /\ coll' = add_transcript_to_collection(coll, api.collection_name,
                                                  api.utt[1], api.task_id)
          /\ api' = [api EXCEPT !.pc = "set"]
       \/ /\ coll' = coll
          /\ api' = Respond("initialize", api.task_id, 500,
                            "Failed to initialize knowledge base")
    /\ UNCHANGED <<uploads, stream, cfg, r2, store, session, queue, disp, summ, idx,
                   provider, requests>>

\* chat.py 84-107: write the chat session, answer 201
initialize_knowledge_base_set ==
    /\ api.op = "initialize" /\ api.pc = "set"
    /\ session' = Set(session, api.task_id,
           [ task_id |-> api.task_id, collection_name |-> api.collection_name,
             initialized |-> TRUE,
             transcript_chunks |-> Len(TranscriptChunks(api.utt[1], api.task_id)),
             uploaded_documents |-> <<>> ])
    /\ api' = Respond("initialize", api.task_id, 201,
                      "Knowledge base initialized successfully")
    /\ UNCHANGED <<uploads, stream, cfg, r2, store, coll, queue, disp, summ, idx,
                   provider, requests>>

\* chat.py 211: await document.read() suspends the handler, which holds the
\* session record it read; the API process is free for other requests
AwaitRead(a, t, session_data) ==
    [ api |-> ApiIdle, awaiting |-> a (+) SetToBag({session_data}) ]

\* chat.py 189-211: POST /chat/{task_id}/upload-document up to the await of
\* the file content
upload_document_get ==
    /\ ApiFree
    /\ \E t \in JobIds :
         /\ TotalRequests < MaxRequests
         /\ requests' = [requests EXCEPT ![t] = @ + 1]
         /\ IF ~cfg.api_redis
            THEN /\ api' = Respond("upload", t, 503, "Task queue service (Redis) not available.")
                 /\ uploads' = uploads
            ELSE IF ~Exists(session, t)
            THEN /\ api' = Respond("upload", t, 404, "Chat session not found.")
                 /\ uploads' = uploads
            ELSE IF ~Truthy(Get(session[t], "collection_name"))
            THEN /\ api' = Respond("upload", t, 500, "Invalid chat session data.")
                 /\ uploads' = uploads
            ELSE LET next == AwaitRead(uploads[t].awaiting, t, session[t])
                 IN /\ api' = next.api
                    /\ uploads' = [uploads EXCEPT ![t].awaiting = next.awaiting]
    /\ UNCHANGED <<stream, cfg, r2, store, session, coll, queue, disp, summ, idx,
                   provider>>

\* chat.py 211-220: the file content is there and the handler resumes;
\* process_uploaded_file returns the document or None
upload_document_read ==
    /\ ApiFree
    /\ \E t \in JobIds :
         \E session_data \in BagToSet(uploads[t].awaiting) :
           /\ uploads' = [uploads EXCEPT
                            ![t].awaiting = @ (-) SetToBag({session_data})]
           /\ \/ api' = Respond("upload", t, 400,
                                "No content could be extracted from the document.")
              \/ api' = [ApiFields("upload", "add", t)
                           EXCEPT !.data = session_data,
                                  !.collection_name = session_data.collection_name]
    /\ UNCHANGED <<stream, cfg, r2, store, session, coll, queue, disp, summ, idx,
                   provider, requests>>

\* chat.py 222-228 and 258-274: index the document; an exception is
\* answered with success=false
upload_document_add ==
    /\ api.op = "upload" /\ api.pc = "add"
    /\ \/ /\ coll' = add_document_to_collection(coll, api.collection_name,
                                                UploadedDocument)
          /\ api' = [api EXCEPT !.pc = "set"]
       \/ /\ coll' = coll
          /\ api' = Respond("upload", api.task_id, 200, "Failed to process document")
    /\ UNCHANGED <<uploads, stream, cfg, r2, store, session, queue, disp, summ, idx,
                   provider, requests>>

\* chat.py 230-254: append the upload to the session read, write it back
upload_document_set ==
    /\ api.op = "upload" /\ api.pc = "set"
    /\ session' = Set(session, api.task_id,
           Put(api.data, "uploaded_documents",
               Append(api.data.uploaded_documents,
                      [file_name |-> UploadedDocument.file_name, chunks_created |-> 1])))
    /\ api' = Respond("upload", api.task_id, 200,
                      "Document uploaded and processed successfully")
    /\ uploads' = [uploads EXCEPT ![api.task_id].succeeded = @ + 1]
    /\ UNCHANGED <<stream, cfg, r2, store, coll, queue, disp, summ, idx,
                   provider, requests>>

\* chat.py 372-385: DELETE /chat/{task_id} up to the removal
delete_chat_session_get ==
    /\ ApiFree
    /\ \E t \in JobIds :
         /\ TotalRequests < MaxRequests
         /\ requests' = [requests EXCEPT ![t] = @ + 1]
         /\ api' = IF ~cfg.api_redis
                   THEN Respond("delete", t, 503, "Task queue service (Redis) not available.")
                   ELSE IF ~Exists(session, t)
                   THEN Respond("delete", t, 404, "Chat session not found.")
                   ELSE [ApiFields("delete", "collection", t)
                           EXCEPT !.collection_name = Get(session[t], "collection_name")]
    /\ UNCHANGED <<uploads, stream, cfg, r2, store, session, coll, queue, disp, summ, idx,
                   provider>>

\* chat.py 387-389: delete_collection answers False instead of raising
delete_chat_session_collection ==
    /\ api.op = "delete" /\ api.pc = "collection"
    /\ \/ coll' = IF Truthy(api.collection_name)
                  THEN delete_collection(coll, api.collection_name) ELSE coll
       \/ coll' = coll
    /\ api' = [api EXCEPT !.pc = "session"]
    /\ UNCHANGED <<uploads, stream, cfg, r2, store, session, queue, disp, summ, idx,
                   provider, requests>>

\* chat.py 391-399: remove the session record, answer 200
delete_chat_session_delete ==
    /\ api.op = "delete" /\ api.pc = "session"
    /\ session' = Delete(session, api.task_id)
    /\ api' = Respond("delete", api.task_id, 200, "Chat session deleted successfully")
    /\ UNCHANGED <<uploads, stream, cfg, r2, store, coll, queue, disp, summ, idx,
                   provider, requests>>

\* two jobs in one run of the system
TwoJobs == {"j1", "j2"}

InitTwoJobs ==
    /\ cfg \in Configs
    /\ api = ApiIdle
    /\ r2 = {}
    /\ store = EmptyDict
    /\ session = EmptyDict
    /\ coll = EmptyDict
    /\ queue = EmptyBag
    /\ disp = [t \in TwoJobs |-> IdleTask]
    /\ summ = [t \in TwoJobs |-> IdleTask]
    /\ idx = [t \in TwoJobs |-> IdleTask]
    /\ provider = [t \in TwoJobs |-> NoProviderJob]
    /\ requests = [t \in TwoJobs |-> 0]
    /\ stream = NoStream
    /\ uploads = [t \in TwoJobs |-> NoUploads]

\* two jobs without diarization, their indexer tasks and the chat requests
NextKnowledge ==
    \/ create_transcription_check
    \/ create_transcription_set
    \/ create_transcription_delay
    \/ api_return
    \/ initialize_knowledge_base_get
    \/ initialize_knowledge_base_add
    \/ initialize_knowledge_base_set
    \/ upload_document_get
    \/ upload_document_read
    \/ upload_document_add
    \/ upload_document_set
    \/ ask_question_get
    \/ rag_engine_search
    \/ rag_engine_invoke
    \/ delete_chat_session_get
    \/ delete_chat_session_collection
    \/ delete_chat_session_delete
    \/ \E t \in JobIds :
         \/ process_transcription_task_unavailable(t)
         \/ process_transcription_task_sync(t)
         \/ process_transcription_task_delay(t)
         \/ process_transcription_task_except(t)
         \/ initialize_vector_store_task_get(t)
         \/ initialize_vector_store_task_add(t)
         \/ initialize_vector_store_task_session(t)
         \/ initialize_vector_store_task_set(t)
         \/ initialize_vector_store_task_except_get(t)
         \/ initialize_vector_store_task_except_set(t)

SpecKnowledge == InitTwoJobs /\ [][NextKnowledge]_vars

\* one job without diarization, its indexer task and upload-document
\* requests
NextUpload ==
    \/ create_transcription_check
    \/ create_transcription_set
    \/ create_transcription_delay
    \/ api_return
    \/ upload_document_get
    \/ upload_document_read
    \/ upload_document_add
    \/ upload_document_set
    \/ \E t \in JobIds :
         \/ process_transcription_task_unavailable(t)
         \/ process_transcription_task_sync(t)
         \/ process_transcription_task_delay(t)
         \/ process_transcription_task_except(t)
         \/ initialize_vector_store_task_get(t)
         \/ initialize_vector_store_task_add(t)
         \/ initialize_vector_store_task_session(t)
         \/ initialize_vector_store_task_set(t)
         \/ initialize_vector_store_task_except_get(t)
         \/ initialize_vector_store_task_except_set(t)

SpecUpload == Init /\ [][NextUpload]_vars

\* the pipeline with the point reads and one live stream
NextRead ==
    \/ create_transcription_check
    \/ create_transcription_set
    \/ create_transcription_delay
    \/ api_return
    \/ summarize_transcription_get
    \/ summarize_transcription_set
    \/ get_status
    \/ stream_status
    \/ event_generator_poll
    \/ event_generator_sleep
    \/ \E t \in TaskIds :
         \/ process_transcription_task_unavailable(t)
         \/ process_transcription_task_async(t)
         \/ process_transcription_task_sync(t)
         \/ process_transcription_task_delay(t)
         \/ process_transcription_task_except(t)
         \/ process_summarization_task_get(t)
         \/ process_summarization_task_set(t)
         \/ process_summarization_task_except_get(t)
         \/ process_summarization_task_except_set(t)
         \/ initialize_vector_store_task_get(t)
         \/ initialize_vector_store_task_add(t)
         \/ initialize_vector_store_task_session(t)
         \/ initialize_vector_store_task_set(t)
         \/ initialize_vector_store_task_except_get(t)
         \/ initialize_vector_store_task_except_set(t)
         \/ job_store_expire(t)

SpecRead == Init /\ [][NextRead]_vars

\* the steps that finish an API request in hand and the steps of the worker
\* tasks
PipelineSteps ==
    \/ create_transcription_set
    \/ create_transcription_delay
    \/ summarize_transcription_set
    \/ api_return
    \/ \E t \in TaskIds :
         \/ process_transcription_task_unavailable(t)
         \/ process_transcription_task_async(t)
         \/ process_transcription_task_sync(t)
         \/ process_transcription_task_delay(t)
         \/ process_transcription_task_except(t)
         \/ process_summarization_task_get(t)
         \/ process_summarization_task_set(t)
         \/ process_summarization_task_except_get(t)
         \/ process_summarization_task_except_set(t)
         \/ initialize_vector_store_task_get(t)
         \/ initialize_vector_store_task_add(t)
         \/ initialize_vector_store_task_session(t)
         \/ initialize_vector_store_task_set(t)
         \/ initialize_vector_store_task_except_get(t)
         \/ initialize_vector_store_task_except_set(t)

\* one live stream on a job that is submitted, transcribed, indexed and
\* summarized on request
NextStream ==
    \/ create_transcription_check
    \/ summarize_transcription_get
    \/ stream_status
    \/ event_generator_poll
    \/ event_generator_sleep
    \/ PipelineSteps
    \/ \E t \in TaskIds : job_store_expire(t)

\* the workers keep taking their steps and an open stream keeps polling and
\* sleeping; clients are not bound to send a request and the store is not
\* bound to let a record expire
SpecStream ==
    /\ Init /\ [][NextStream]_vars
    /\ WF_vars(PipelineSteps)
    /\ WF_vars(event_generator_poll)
    /\ WF_vars(event_generator_sleep)

\* the steps of the API, of the provider and of the workers from a submission
\* to the end of its transcription
LiveSteps ==
    \/ create_transcription_check
    \/ create_transcription_set
    \/ create_transcription_delay
    \/ api_return
    \/ assemblyai_webhook_outcome
    \/ assemblyai_webhook_fetch
    \/ assemblyai_webhook_get
    \/ assemblyai_webhook_lost_set
    \/ assemblyai_webhook_lost_delay
    \/ assemblyai_webhook_set
    \/ assemblyai_webhook_delay
    \/ assemblyai_webhook_except
    \/ assemblyai_webhook_error
    \/ \E t \in TaskIds :
         \/ process_transcription_task_unavailable(t)
         \/ process_transcription_task_async(t)
         \/ process_transcription_task_sync(t)
         \/ process_transcription_task_delay(t)
         \/ process_transcription_task_except(t)
         \/ initialize_vector_store_task_get(t)
         \/ initialize_vector_store_task_add(t)
         \/ initialize_vector_store_task_session(t)
         \/ initialize_vector_store_task_set(t)
         \/ initialize_vector_store_task_except_get(t)
         \/ initialize_vector_store_task_except_set(t)

NextLive == LiveSteps \/ \E t \in TaskIds : job_store_expire(t)

\* the API, the provider and the workers keep taking their steps; the store
\* is not bound to let a record expire
SpecLive == Init /\ [][NextLive]_vars /\ WF_vars(LiveSteps)

\* the same system with callbacks from callers that do not hold the secret
NextForged == Next \/ assemblyai_webhook_forged
SpecForged == Init /\ [][NextForged]_vars

\* ------------------------------------------------------------------ properties
\* the stored value of a key, with an absent key told apart from a null
SameField(d1, d2, k) ==
    /\ (k \in DOMAIN d1) <=> (k \in DOMAIN d2)
    /\ (k \in DOMAIN d1) => (d1[k] = d2[k])

\* the job's summarization tasks that were enqueued and have not finished
OutstandingSummarizations(t) ==
    CopiesIn(Msg("process_summarization_task", t, FALSE), queue)
      + (IF summ[t].pc = "idle" THEN 0 ELSE 1)

\* the header of the callback in hand is absent or is not the configured secret
BadSecret(a) ==
    ~Truthy(a.secret) \/ a.secret # cfg.ASSEMBLYAI_WEBHOOK_SECRET

\* the job was submitted with this diarization flag
Submitted(t, d) ==
    \/ BagIn(Msg("process_transcription_task", t, d), queue)
    \/ disp[t].pc # "idle" /\ disp[t].diar = d

\* this step is a step of the job's dispatcher task
DispatcherStep(t) == disp'[t] # disp[t]

\* C1: once the stored status of a job is completed or failed, no later write
\* to the Job Store changes the status to a different value.
C1_StatusMonotonic ==
    [][\A t \in TaskIds :
         (Exists(store, t) /\ Terminal(store[t].status) /\ Exists(store', t))
           => (store'[t].status = store[t].status)]_vars

\* C2: a callback whose secret header is absent or differs from the
\* configured secret leaves the job records and the chat-session records
\* unchanged and enqueues nothing, whatever the payload status and whatever
\* the state of the job.
C2_BadSecretChangesNothing ==
    [][((api' # api) /\
        \/ api.op = "webhook" /\ BadSecret(api)
        \/ api'.op = "webhook" /\ BadSecret(api'))
         => (store' = store /\ session' = session /\ queue' = queue /\ coll' = coll)]_vars

\* a callback with a wrong secret and payload status error was answered 403
\* while the job's record is completed
C2_Witness ==
    /\ api.op = "webhook" /\ api.pc = "done" /\ api.code = 403
    /\ api.status = "error"
    /\ Exists(store, api.task_id) /\ store[api.task_id].status = "completed"

\* C3: the transcript is not fetched from the provider for a callback whose
\* secret is absent or mismatched: the comparison comes before the fetch.
C3_NoFetchForBadSecret ==
    (api.op = "webhook" /\ BadSecret(api)) => (~api.fetched /\ api.pc = "done")

\* a callback with payload status completed and a wrong or missing secret
\* was rejected for a job the provider is working on
C3_Witness ==
    /\ api.op = "webhook" /\ api.pc = "done" /\ api.code \in {401, 403}
    /\ api.status = "completed" /\ ~api.fetched
    /\ provider[api.task_id].webhook

\* C4: while the stored status of a job is completed, the handling of a
\* further callback with a valid secret and payload status completed never
\* leaves the job pending or failed, whatever the transcript fetch returns.
C4_DuplicateKeepsCompleted ==
    [][(/\ api.op = "webhook" /\ api.status = "completed" /\ ~BadSecret(api)
        /\ api' # api
        /\ Exists(store, api.task_id) /\ store[api.task_id].status = "completed"
        /\ Exists(store', api.task_id))
         => (store'[api.task_id].status \notin {"pending", "failed"})]_vars

\* C5: the write of a valid completion callback for a job that is already
\* completed keeps utterances, audio_url, summary, summary_status,
\* summary_error, rag_ready, rag_collection and rag_chunks as they were.
C5_DuplicateIdempotent ==
    [][(/\ api.op = "webhook" /\ api.status = "completed" /\ api.pc = "set"
        /\ api' # api
        /\ Exists(store, api.task_id) /\ store[api.task_id].status = "completed"
        /\ GetUtterances(store[api.task_id]) = api.utt)
         => (/\ Exists(store', api.task_id)
             /\ \A k \in {"utterances", "audio_url", "summary", "summary_status",
                          "summary_error", "rag_ready", "rag_collection", "rag_chunks"} :
                  SameField(store[api.task_id], store'[api.task_id], k))]_vars

\* C6: a job submitted with diarization disabled is never uploaded to the
\* diarizing provider and never gets a callback registration, and its stored
\* status goes from pending to completed or failed only in a step of the
\* dispatcher task.
C6_PlainJobStaysSynchronous ==
    [][\A t \in TaskIds :
         /\ Submitted(t, FALSE)' => (~provider'[t].uploaded /\ ~provider'[t].webhook)
         /\ (/\ Submitted(t, FALSE)
             /\ Exists(store, t) /\ store[t].status = "pending"
             /\ Exists(store', t) /\ Terminal(store'[t].status))
              => (DispatcherStep(t) /\ api' = api)]_vars

\* a job without diarization was completed by its dispatcher
C6_Witness ==
    \E t \in TaskIds :
      /\ disp[t].pc = "done" /\ ~disp[t].diar
      /\ Exists(store, t) /\ store[t].status = "completed"

\* the record the synchronous path writes for text T, but for audio_url
SyncRecordFor(d, text) ==
    /\ d.status = "completed"
    /\ d.utterances = << << [speaker |-> Null, text |-> text] >> >>
    /\ d.error = Null /\ d.summary = Null /\ d.summary_status = "not_started"

\* the dispatcher enqueues indexing in its step after the write, and in no other
IndexingAfterWrite(t) ==
    /\ (disp[t].pc = "delay" /\ DispatcherStep(t))
         => (queue' = Delay(queue, Msg("initialize_vector_store_task", t, FALSE))
             /\ store' = store)
    /\ (DispatcherStep(t) /\ queue' # queue /\ disp[t].pc # "idle")
         => (disp[t].pc = "delay")
    /\ (DispatcherStep(t) /\ disp[t].pc = "idle")
         => (CopiesIn(Msg("initialize_vector_store_task", t, FALSE), queue')
               = CopiesIn(Msg("initialize_vector_store_task", t, FALSE), queue))

\* C7 (as stated): with diarization disabled and the provider returning T,
\* the dispatcher writes status completed, utterances [{speaker null, text T}],
\* error null, summary null, summary_status not_started and a non-null
\* audio_url, and enqueues indexing only after that write.
C7_SyncRecordWithUrl ==
    [][\A t \in TaskIds :
         /\ (disp[t].pc = "idle" /\ disp'[t].pc = "delay")
              => (/\ Exists(store', t)
                  /\ \E text \in Texts : SyncRecordFor(store'[t], text)
                  /\ store'[t].audio_url # Null)
         /\ IndexingAfterWrite(t)]_vars

\* C7 (amended): the same record, with audio_url the presigned URL of the
\* job's object, or null when the URL could not be generated; indexing is
\* enqueued only after that write.
C7_SyncRecord ==
    [][\A t \in TaskIds :
         /\ (disp[t].pc = "idle" /\ disp'[t].pc = "delay")
              => (/\ Exists(store', t)
                  /\ \E text \in Texts : SyncRecordFor(store'[t], text)
                  /\ store'[t].audio_url =
                       (IF cfg.r2_signs THEN PresignedUrl(ObjectKey(t)) ELSE Null)
                  /\ DOMAIN store'[t] = {"status", "utterances", "error", "audio_url",
                                         "summary", "summary_status", "summary_error"})
         /\ IndexingAfterWrite(t)]_vars

\* the synchronous path has written its record, with no URL because signing
\* failed, and indexing is not enqueued yet
C7_Witness ==
    \E t \in TaskIds :
      /\ disp[t].pc = "delay" /\ ~cfg.r2_signs
      /\ Exists(store, t) /\ store[t].status = "completed"
      /\ store[t].audio_url = Null
      /\ ~BagIn(Msg("initialize_vector_store_task", t, FALSE), queue)

\* C8: a submission with diarization enabled while the provider's API key,
\* the public base URL or the webhook secret is not configured is answered
\* 503, nothing is uploaded, nothing is written to the Job Store and no task
\* is enqueued.
C8_UnconfiguredDiarizationRejected ==
    [][(/\ api.pc = "idle" /\ api'.op = "create" /\ api'.diar
        /\ ~DiarizationConfigured)
         => (/\ api'.pc = "done" /\ api'.code = 503
             /\ r2' = r2 /\ store' = store /\ queue' = queue)]_vars

\* a diarized submission was answered 503 where the store and the object
\* storage are available and the provider's key is not set
C8_Witness ==
    /\ api.op = "create" /\ api.pc = "done" /\ api.code = 503 /\ api.diar
    /\ cfg.api_redis /\ cfg.api_r2 /\ ~Truthy(cfg.ASSEMBLYAI_API_KEY)
    /\ r2 = {} /\ store = EmptyDict /\ queue = EmptyBag

\* C9: however the summarize requests interleave with the summarization
\* task and the indexer task, a job has at most one summarization task
\* enqueued and not yet finished.
C9_OneSummarizationTask ==
    \A t \in TaskIds : OutstandingSummarizations(t) <= 1

\* the early answers of a summarize request, given that the store was read
SummarizeAnswers(t) ==
    /\ ~Exists(store, t)
         => (api'.pc = "done" /\ api'.code = 404 /\ store' = store /\ queue' = queue)
    /\ (Exists(store, t) /\ Get(store[t], "status") # "completed")
         => (api'.pc = "done" /\ api'.code = 400 /\ store' = store /\ queue' = queue)
    /\ (/\ Exists(store, t) /\ Get(store[t], "status") = "completed"
        /\ Get(store[t], "summary_status") \notin {"pending", "completed"})
         => (api'.pc = "set" /\ store' = store /\ queue' = queue)

\* the write of a summarize request that got past the early answers
SummarizeStarts ==
    (api.op = "summarize" /\ api.pc = "set" /\ api' # api)
      => (/\ Exists(store', api.task_id)
          /\ store'[api.task_id].summary_status = "pending"
          /\ queue' = Delay(queue, Msg("process_summarization_task", api.task_id, FALSE))
          /\ api'.pc = "done" /\ api'.code = 202
          /\ api'.msg = "Summarization task started.")

\* C10 (as stated): a summarize request for a job that does not exist is
\* answered 404, for a job whose status is not completed 400, both without
\* a change of the Job Store and without enqueuing; for a completed job whose
\* summary_status is neither pending nor completed it sets summary_status to
\* pending, enqueues exactly one summarization task and answers 202.
C10_SummarizeAnswers ==
    [][/\ (api.pc = "idle" /\ api'.op = "summarize") => SummarizeAnswers(api'.task_id)
       /\ SummarizeStarts]_vars

\* C10 (amended): the same where the API process holds a Job Store client;
\* where it does not, the request is answered 503 and changes nothing.
C10_SummarizeAnswersWithStore ==
    [][/\ (api.pc = "idle" /\ api'.op = "summarize")
            => IF cfg.api_redis
               THEN SummarizeAnswers(api'.task_id)
               ELSE /\ api'.pc = "done" /\ api'.code = 503
                    /\ store' = store /\ queue' = queue
       /\ SummarizeStarts]_vars

\* a summarize request on a completed job has set pending, enqueued the one
\* task and answered 202
C10_Witness ==
    /\ api.op = "summarize" /\ api.pc = "done" /\ api.code = 202
    /\ api.msg = "Summarization task started."
    /\ Exists(store, api.task_id)
    /\ store[api.task_id].status = "completed"
    /\ store[api.task_id].summary_status = "pending"
    /\ CopiesIn(Msg("process_summarization_task", api.task_id, FALSE), queue) = 1

\* C11: an ask whose retrieval returns no chunks is answered with
\* success=true, the canned no-information answer, empty sources and an
\* empty context_used, and the language model is not invoked for it.
C11_EmptyRetrievalCannedAnswer ==
    (api.op = "ask" /\ api.docs = << <<>> >>)
      => (/\ api.pc = "done" /\ api.code = 200
          /\ api.data.success = TRUE
          /\ api.data.answer = NoInformation.answer
          /\ api.data.sources = <<>> /\ api.data.context_used = <<>>
          /\ ~api.llm)

\* a question was answered over a collection that exists and holds no chunk
C11_Witness ==
    /\ api.op = "ask" /\ api.pc = "done" /\ api.docs = << <<>> >>
    /\ Exists(session, api.task_id)
    /\ Exists(coll, api.collection_name) /\ coll[api.collection_name] = <<>>
    /\ api.data.success = TRUE

\* C12: ask_question of the engine never raises to the chat handler: once
\* the handler has called the engine the answer is 200, and a result with
\* success=false has empty sources, an empty context_used and an error
\* message; an uninitialized engine, a failed retrieval, a failed
\* formatting and a failed model call each give such a result.
C12_AskNeverRaises ==
    (api.op = "ask" /\ api.pc = "done" /\ api.collection_name # Null)
      => (/\ api.code = 200
          /\ api.data.success \in BOOLEAN
          /\ api.data.success => (api.data.error = Null)
          /\ ~api.data.success
               => (/\ api.data.sources = <<>> /\ api.data.context_used = <<>>
                   /\ api.data.error \in {"RAG engine not properly initialized",
                                          "retrieval failed", "formatting failed",
                                          "model call failed"}))

\* the model was called for a question, the call failed and the handler
\* answered with the engine's failure result
C12_Witness ==
    /\ api.op = "ask" /\ api.pc = "done" /\ api.llm
    /\ api.code = 200 /\ ~api.data.success
    /\ api.data.error = "model call failed"

\* this step is a point read of job t that found the record
PointReadFinds(t) ==
    /\ api.pc = "idle" /\ api'.op = "status" /\ api'.task_id = t
    /\ cfg.api_redis /\ Exists(store, t)

\* this step is a poll of the live stream that found the record
PollFinds ==
    /\ stream.pc = "poll" /\ stream' # stream /\ stream'.pc # "disconnected"
    /\ Exists(store, stream.task_id)

\* object_key is in no record handed to a client
NoObjectKeySurfaced ==
    /\ (api.op = "status") => ("object_key" \notin DOMAIN api.data)
    /\ "object_key" \notin DOMAIN stream.last

C14_StreamStopsOnTerminalEvent ==
    [][(stream.pc = "poll" /\ stream' # stream)
         => \/ stream'.pc = "disconnected" /\ stream'.emitted = stream.emitted
            \/ /\ stream'.emitted = Counted(stream.emitted)
               /\ stream'.pc \in {"ended", "sleep"}
               /\ (stream'.pc = "ended")
                    <=> \/ stream'.last.status = "failed"
                        \/ Get(stream'.last, "summary_status") \in {"completed", "failed"}]_vars

\* the stream emitted a completed transcription whose summary is pending
\* and goes on polling
C14_Witness ==
    /\ stream.pc = "sleep" /\ stream.emitted >= 1
    /\ stream.last.status = "completed"
    /\ Get(stream.last, "summary_status") = "pending"

\* what a poll of the live stream does when the record is absent
PollNotFound ==
    (stream.pc = "poll" /\ stream' # stream /\ stream'.pc # "disconnected"
       /\ ~Exists(store, stream.task_id))
      => (/\ stream'.last = [status |-> "failed", error |-> "Task not found."]
          /\ stream'.emitted = Counted(stream.emitted)
          /\ stream'.pc = "ended")

\* an ended stream emits nothing more
EndedStreamIsSilent ==
    (stream.pc \in {"ended", "disconnected"}) => (stream' = stream)

\* C15 (as stated): with the job record absent, a point read is answered
\* 404 and a poll of the live stream emits the one event {status: failed,
\* error: Task not found.} and ends the stream, also when an earlier poll
\* found the record.
C15_AbsentRecord ==
    [][/\ \A t \in TaskIds :
            (api.pc = "idle" /\ api'.op = "status" /\ api'.task_id = t
               /\ ~Exists(store, t))
              => (api'.code = 404)
       /\ PollNotFound /\ EndedStreamIsSilent]_vars

\* C15 (amended): the same where the API process holds a Job Store client;
\* without one the point read is answered 503.
C15_AbsentRecordWithStore ==
    [][/\ \A t \in TaskIds :
            (api.pc = "idle" /\ api'.op = "status" /\ api'.task_id = t
               /\ ~Exists(store, t))
              => (api'.code = IF cfg.api_redis THEN 404 ELSE 503)
       /\ PollNotFound /\ EndedStreamIsSilent]_vars

\* a stream that had emitted the record found it gone at a later poll
C15_Witness ==
    /\ stream.pc = "ended" /\ stream.seen /\ stream.emitted = 2
    /\ stream.last = [status |-> "failed", error |-> "Task not found."]
    /\ ~Exists(store, stream.task_id)

\* C16: a callback without the secret header is answered 401 and one with
\* a header that is not the configured secret 403, before any other work,
\* in every state of the server.
C16_BadSecretRejected ==
    (api.op = "webhook" /\ BadSecret(api))
      => (/\ api.pc = "done"
          /\ api.code = IF Truthy(api.secret) THEN 403 ELSE 401)

\* C17: a job whose record is pending gets status completed or failed, as
\* long as its record is kept, when the API, the provider and the worker
\* tasks keep taking their steps.
C17_EveryJobTerminates ==
    \A t \in TaskIds :
      (Exists(store, t) /\ store[t].status = "pending")
        ~> (~Exists(store, t) \/ Terminal(store[t].status))

\* C18: a valid completion callback for a job id without a record writes
\* a record with status completed, the fetched utterances and
\* summary_status not_started, then enqueues indexing and is answered 200;
\* a point read of that record returns it completed.
C18_LostRecordRecreated ==
    [][/\ (api.op = "webhook" /\ api.pc = "get" /\ api' # api
             /\ ~Exists(store, api.task_id))
            => (api'.pc = "lost_set" /\ store' = store)
       /\ (api.op = "webhook" /\ api.pc = "lost_set" /\ api' # api)
            => (/\ Exists(store', api.task_id)
                /\ store'[api.task_id].status = "completed"
                /\ store'[api.task_id].utterances = api.utt
                /\ store'[api.task_id].summary_status = "not_started"
                /\ api'.pc = "lost_delay" /\ queue' = queue)
       /\ (api.op = "webhook" /\ api.pc = "lost_delay" /\ api' # api)
            => (/\ queue' = Delay(queue, Msg("initialize_vector_store_task",
                                             api.task_id, FALSE))
                /\ api'.pc = "done" /\ api'.code = 200 /\ store' = store)
       /\ \A t \in TaskIds :
            (PointReadFinds(t) /\ store[t].status = "completed" /\ ~("object_key" \in DOMAIN store[t]))
              => (api'.code = 200 /\ api'.data.status = "completed"
                  /\ api'.data.utterances = store[t].utterances)]_vars

\* a point read returned completed for a record that a callback wrote after
\* the job's record was lost
C18_Witness ==
    /\ api.op = "status" /\ api.pc = "done" /\ api.code = 200
    /\ api.data.status = "completed" /\ api.data.audio_url = Null
    /\ provider[api.task_id].webhook
    /\ provider[api.task_id].outcome = "completed"
    /\ Exists(store, api.task_id)
    /\ ~("object_key" \in DOMAIN store[api.task_id])
    /\ cfg.r2_signs

\* C19: a valid callback with payload status error writes status failed
\* with the provider's message, or the generic message when none came,
\* fetches nothing, enqueues nothing and is answered 200.
C19_ErrorCallback ==
    [][/\ (api'.op = "webhook" /\ api'.status = "error" /\ ~BadSecret(api')
             /\ cfg.api_redis)
            => (~api'.fetched /\ api'.pc \in {"error", "done"})
       /\ (api.op = "webhook" /\ api.pc = "error" /\ api' # api)
            => (/\ Exists(store', api.task_id)
                /\ store'[api.task_id].status = "failed"
                /\ store'[api.task_id].error =
                     (IF api.err \in {Null, ""}
                      THEN "AssemblyAI processing failed with an unknown error."
                      ELSE api.err)
                /\ queue' = queue
                /\ api'.pc = "done" /\ api'.code = 200)]_vars

\* an error callback without a message was answered 200 and the record is
\* failed with the generic message
C19_Witness ==
    /\ api.op = "webhook" /\ api.pc = "done" /\ api.code = 200
    /\ api.status = "error" /\ ~api.fetched
    /\ Exists(store, api.task_id)
    /\ store[api.task_id].status = "failed"
    /\ store[api.task_id].error = "AssemblyAI processing failed with an unknown error."
    /\ provider[api.task_id].error = Null

\* C20: when the synchronous path fails the dispatcher writes status failed
\* with an error that carries the cause and enqueues no indexing; it does
\* not call the provider again and does not enqueue the transcription task
\* again.
C20_SyncFailure ==
    [][\A t \in TaskIds :
         /\ (disp[t].pc = "except" /\ ~disp[t].diar /\ DispatcherStep(t))
              => (/\ Exists(store', t)
                  /\ store'[t].status = "failed"
                  /\ store'[t].error = disp[t].err
                  /\ disp[t].err \in {ProcessingFailed("groq"), ProcessingFailed("r2"),
                                      ProcessingFailed("provider")}
                  /\ queue' = queue
                  /\ disp'[t].pc = "done")
         /\ DispatcherStep(t)
              => (CopiesIn(Msg("process_transcription_task", t, FALSE), queue')
                    <= CopiesIn(Msg("process_transcription_task", t, FALSE), queue))
         /\ (disp[t].pc \in {"except", "done"}) => (disp'[t].pc \in {"except", "done"})]_vars

\* the synchronous path failed at the provider, the record is failed with
\* that cause and nothing is queued
C20_Witness ==
    \E t \in TaskIds :
      /\ disp[t].pc = "done" /\ ~disp[t].diar
      /\ Exists(store, t) /\ store[t].status = "failed"
      /\ store[t].error = ProcessingFailed("provider")
      /\ queue = EmptyBag

\* the fields the indexer writes into a job record
RagFields == {"rag_ready", "rag_collection", "rag_chunks", "rag_error"}

\* this step is a step of the job's summarization task
SummarizationStep(t) == summ'[t] # summ[t]

\* this step is a step of the job's indexer task
IndexerStep(t) ==
    \/ idx'[t] # idx[t]
    \/ /\ idx[t].pc = "idle"
       /\ CopiesIn(Msg("initialize_vector_store_task", t, FALSE), queue')
            < CopiesIn(Msg("initialize_vector_store_task", t, FALSE), queue)

\* C22: the write of the summarization task keeps the rag fields the
\* indexer wrote into the record while the summary was generated: the
\* success write keeps the rag fields of the stored record, the failure
\* write those of the record read in the except clause.
C22_SummaryWriteKeepsRagFields ==
    [][\A t \in TaskIds :
         /\ (summ[t].pc = "set" /\ SummarizationStep(t) /\ Exists(store, t))
              => \A k \in RagFields : SameField(store[t], store'[t], k)
         /\ (summ[t].pc = "except_set" /\ SummarizationStep(t))
              => \A k \in RagFields : SameField(summ[t].data, store'[t], k)]_vars

C24_CompletedJobMarked ==
    [][\A t \in TaskIds :
         /\ (/\ idx[t].pc = "idle" /\ IndexerStep(t)
             /\ cfg.worker_redis
             /\ Exists(store, t) /\ Get(store[t], "status") = "completed")
              => (idx'[t].pc = "add")
         /\ (idx[t].pc \in {"set", "except_set"} /\ IndexerStep(t))
              => ("rag_ready" \in DOMAIN store'[t])]_vars

\* C25: the utterances of a job are appended to its collection at most
\* once, so no collection holds the same transcript chunk twice.
C25_TranscriptIndexedOnce ==
    \A name \in DOMAIN coll :
      \A i, j \in 1..Len(coll[name]) :
        (i # j) => (coll[name][i] # coll[name][j])

\* the indexing tasks of a job that wait in the broker
IndexingQueued(q, t) == CopiesIn(Msg("initialize_vector_store_task", t, FALSE), q)

\* C26: indexing is enqueued only by the dispatcher and the callback
\* receiver, each in the step after its write of status completed; an
\* indexer run that reads no record or a record that is not completed
\* writes nothing to the Job Store and leaves the collections as they are.
C26_IndexingAfterCompletion ==
    [][\A t \in TaskIds :
         /\ (IndexingQueued(queue', t) > IndexingQueued(queue, t))
              => (/\ IndexingQueued(queue', t) = IndexingQueued(queue, t) + 1
                  /\ \/ disp[t].pc = "delay" /\ DispatcherStep(t)
                     \/ /\ api.op = "webhook" /\ api.task_id = t
                        /\ api.pc \in {"delay", "lost_delay"} /\ api' # api)
         /\ (disp'[t].pc = "delay" /\ disp[t].pc # "delay")
              => (Exists(store', t) /\ store'[t].status = "completed")
         /\ (/\ api'.op = "webhook" /\ api'.task_id = t
             /\ api'.pc \in {"delay", "lost_delay"} /\ api' # api)
              => (/\ api.op = "webhook" /\ api.pc \in {"set", "lost_set"}
                  /\ Exists(store', t) /\ store'[t].status = "completed")
         /\ (/\ idx[t].pc = "idle" /\ IndexerStep(t)
             /\ ~Exists(store, t) \/ Get(store[t], "status") # "completed")
              => (/\ idx'[t] = idx[t]
                  /\ store' = store /\ session' = session /\ coll' = coll)]_vars

\* the callback receiver has enqueued indexing after its write and the
\* indexer has not run yet, while the record is no longer completed
C26_Witness ==
    \E t \in TaskIds :
      /\ IndexingQueued(queue, t) = 1
      /\ idx[t].pc = "idle"
      /\ provider[t].webhook
      /\ Exists(store, t) /\ store[t].status = "failed"

\* C27: the records of a job that carry a terminal status are written by
\* one actor: the dispatcher writes only for a job whose callback the
\* provider does not hold, the callback receiver only for a job that was
\* submitted with diarization and handed to the provider.
C27_OneTerminalWriter ==
    [][\A t \in TaskIds :
         /\ (DispatcherStep(t) /\ store' # store)
              => (Terminal(store'[t].status) /\ ~provider[t].webhook)
         /\ (/\ api.op = "webhook" /\ api.task_id = t /\ api' # api
             /\ store' # store)
              => (/\ Terminal(store'[t].status)
                  /\ provider[t].webhook
                  /\ disp[t].pc \in {"done", "except"} /\ disp[t].diar)]_vars

\* C28: a stored record has utterances only with status completed, the
\* utterances appear in a write that leaves the status completed, and a
\* later write does not change or remove them.
C28_UtterancesSetOnce ==
    [][\A t \in TaskIds :
         /\ (Exists(store', t) /\ GetUtterances(store'[t]) # NoUtterances)
              => (store'[t].status = "completed")
         /\ (Exists(store, t) /\ Exists(store', t)
             /\ GetUtterances(store[t]) # NoUtterances)
              => (GetUtterances(store'[t]) = GetUtterances(store[t]))]_vars

\* C29: a valid completion callback that finds the job's record writes
\* status completed with the fetched utterances, error null, summary_status
\* not_started and the audio_url signed for the object_key of the record it
\* read (null when the record has none or signing fails), then enqueues
\* indexing; when the transcript fetch fails it writes status failed and
\* enqueues nothing.
C29_CompletionCallback ==
    [][(api.op = "webhook" /\ api.status = "completed" /\ api' # api) =>
         LET t == api.task_id
             object_key == Get(api.data, "object_key")
         IN /\ (api.pc = "fetch")
                 => (/\ api'.pc \in {"get", "except"}
                     /\ (api'.pc = "get") => (api'.utt = provider[t].utterances)
                     /\ store' = store /\ queue' = queue)
            /\ (api.pc = "get" /\ Exists(store, t))
                 => (api'.pc = "set" /\ api'.data = store[t] /\ store' = store)
            /\ (api.pc = "set")
                 => (/\ store'[t].status = "completed"
                     /\ store'[t].utterances = api.utt
                     /\ store'[t].error = Null
                     /\ store'[t].summary_status = "not_started"
                     /\ store'[t].audio_url =
                          (IF Truthy(object_key) /\ cfg.api_r2 /\ cfg.r2_signs
                           THEN PresignedUrl(object_key) ELSE Null)
                     /\ queue' = queue /\ api'.pc = "delay")
            /\ (api.pc = "delay")
                 => (/\ IndexingQueued(queue', t) = IndexingQueued(queue, t) + 1
                     /\ store' = store
                     /\ api'.pc = "done" /\ api'.code = 200)
            /\ (api.pc = "except")
                 => (/\ store'[t].status = "failed"
                     /\ queue' = queue
                     /\ api'.pc = "done" /\ api'.code = 200)]_vars

\* a completion callback found the pending record of the job, wrote the
\* provider's speaker turns with a signed audio_url and enqueued indexing
C29_Witness ==
    /\ api.op = "webhook" /\ api.pc = "done" /\ api.code = 200
    /\ api.status = "completed"
    /\ api.msg = "Webhook received successfully."
    /\ Exists(store, api.task_id)
    /\ store[api.task_id].status = "completed"
    /\ store[api.task_id].utterances = provider[api.task_id].utterances
    /\ TruthyList(store[api.task_id].utterances)
    /\ store[api.task_id].audio_url = PresignedUrl(ObjectKey(api.task_id))
    /\ IndexingQueued(queue, api.task_id) = 1

\* this step is a step of the live stream or of a point read
DistributorStep ==
    \/ stream' # stream
    \/ api'.op = "status" /\ api' # api
    \/ api.op = "status" /\ api' # api

\* C30: no step of the live stream or of a point read writes a job or
\* session record, changes a collection, enqueues or removes a task or
\* touches a running task; a disconnect changes the stream alone.
C30_DistributorOnlyObserves ==
    [][DistributorStep
         => (/\ UNCHANGED <<store, session, coll, queue, r2, provider>>
             /\ UNCHANGED <<disp, summ, idx>>
             /\ (stream'.pc = "disconnected" /\ stream.pc # "disconnected")
                  => (api' = api))]_vars

\* the client left a stream whose last event showed the job pending, and
\* the job was transcribed, indexed and summarized afterwards
C30_Witness ==
    /\ stream.pc = "disconnected"
    /\ stream.emitted = 1 /\ stream.last.status = "pending"
    /\ Exists(store, stream.task_id)
    /\ store[stream.task_id].status = "completed"
    /\ Get(store[stream.task_id], "summary_status") = "completed"
    /\ "rag_ready" \in DOMAIN store[stream.task_id]

\* the chunks retrievable for a job: its collection, <<>> when there is none
ChunksOf(c, t) == IF Exists(c, CollectionName(t)) THEN <<c[CollectionName(t)]>> ELSE <<>>

\* this step is a step of a chat request for the job or of the job's indexer
KnowledgeStep(t) ==
    \/ api.task_id = t /\ api' # api
       /\ api.op \in {"initialize", "upload", "ask", "delete"}
    \/ idx'[t] # idx[t]

\* C21: the chunks retrievable for a job and its chat session change only
\* in steps of that job's own indexer and chat requests; a question for a
\* job retrieves from the collection chat_<job>, and every transcript chunk
\* of that collection was indexed for that job.
C21_CollectionsPartitioned ==
    [][/\ \A x \in JobIds :
            /\ (ChunksOf(coll', x) # ChunksOf(coll, x)) => KnowledgeStep(x)
            /\ ((Exists(session, x) # Exists(session', x))
                  \/ (Exists(session, x) /\ Exists(session', x)
                        /\ session'[x] # session[x]))
                 => KnowledgeStep(x)
            /\ Exists(coll', CollectionName(x))
                 => \A i \in 1..Len(coll'[CollectionName(x)]) :
                      (coll'[CollectionName(x)][i].source = "transcript")
                        => (coll'[CollectionName(x)][i].task_id = x)
       /\ (api.op = "ask" /\ api.pc = "search" /\ api' # api /\ api'.docs # <<>>)
            => (/\ api.collection_name = CollectionName(api.task_id)
                /\ api'.docs[1] = similarity_search(coll', CollectionName(api.task_id),
                                                    RAG_TOP_K_RESULTS))
       /\ (api.op = "ask" /\ api.pc = "invoke" /\ api' # api /\ api'.data.success)
            => (api'.data.sources = Sources(api.docs[1]))]_vars

\* a question for j1 was answered from j1's transcript while the collection
\* of j2 holds an uploaded document and j2's transcript
C21_Witness ==
    /\ api.op = "ask" /\ api.pc = "done" /\ api.task_id = "j1"
    /\ api.code = 200 /\ api.data.success /\ api.llm
    /\ Len(api.data.sources) = 1
    /\ Exists(coll, "chat_j2")
    /\ \E i, j \in 1..Len(coll["chat_j2"]) :
         /\ coll["chat_j2"][i].source = "uploaded_document"
         /\ coll["chat_j2"][j].source = "transcript"

\* the summary_status values that say a summary is on its way or stored
SummaryLive == {"pending", "completed"}

\* C33: in every stored job record, summary_status is pending or completed
\* only if status is completed; no write of any stage leaves a record with
\* status pending or failed together with summary_status pending or completed.
C33_SummaryNeedsCompleted ==
    \A t \in JobIds :
      (Exists(store, t) /\ Get(store[t], "summary_status") \in SummaryLive)
        => Get(store[t], "status") = "completed"

\* a record whose summary was requested, turned to failed by a later write
\* while the summarization task is still outstanding
C33_Witness ==
    \E t \in JobIds :
      /\ Exists(store, t)
      /\ Get(store[t], "status") = "failed"
      /\ OutstandingSummarizations(t) > 0

\* C34: once summary_status is completed with a summary stored, the final
\* write of the indexer task leaves summary, summary_status and
\* summary_error as they are in the Job Store at the moment of that write.
C34_IndexerKeepsSummary ==
    [][\A t \in JobIds :
         ( /\ idx[t].pc \in {"set", "except_set"}
           /\ IndexerStep(t)
           /\ Exists(store, t)
           /\ Get(store[t], "summary_status") = "completed"
           /\ Truthy(Get(store[t], "summary")) )
           => \A k \in {"summary", "summary_status", "summary_error"} :
                SameField(store[t], store'[t], k)]_vars

\* C35: in every stored job record with summary_status=completed, summary
\* is non-null and summary_error is null, also after a summarization that
\* failed, was requested again and succeeded.
C35_CompletedSummaryClean ==
    \A t \in JobIds :
      (Exists(store, t) /\ Get(store[t], "summary_status") = "completed")
        => /\ Truthy(Get(store[t], "summary"))
           /\ Get(store[t], "summary_error") = Null

\* the job's messages on the broker, of every task name and flag
QueuedFor(q, t) ==
    CopiesIn(Msg("process_transcription_task", t, FALSE), q)
      + CopiesIn(Msg("process_transcription_task", t, TRUE), q)
      + CopiesIn(Msg("process_summarization_task", t, FALSE), q)
      + CopiesIn(Msg("initialize_vector_store_task", t, FALSE), q)

\* C36: at submission the pending record is written before the
\* transcription task is enqueued: the write finds no record of the job, no
\* task of the job queued or running and no callback registered, and the
\* task is enqueued only by the submission that has written the record.
C36_PendingWrittenFirst ==
    [][\A t \in JobIds :
         /\ (api.op = "create" /\ api.pc = "set" /\ api.task_id = t /\ api' # api)
              => /\ ~Exists(store, t)
                 /\ QueuedFor(queue, t) = 0
                 /\ disp[t].pc = "idle" /\ summ[t].pc = "idle" /\ idx[t].pc = "idle"
                 /\ ~provider[t].webhook
                 /\ Exists(store', t) /\ store'[t] = InitialData(t)
                 /\ queue' = queue
         /\ \A d \in BOOLEAN :
              CopiesIn(Msg("process_transcription_task", t, d), queue')
                  > CopiesIn(Msg("process_transcription_task", t, d), queue)
                => /\ api.op = "create" /\ api.pc = "delay" /\ api.task_id = t
                   /\ api.diar = d]_vars

\* a submission answered 202 with the pending record stored and the task
\* on the broker
C36_Witness ==
    /\ api.op = "create" /\ api.pc = "done" /\ api.code = 202
    /\ Exists(store, api.task_id)
    /\ store[api.task_id] = InitialData(api.task_id)
    /\ QueuedFor(queue, api.task_id) = 1

\* C37: whenever a job record has rag_ready=true, the chat-session record
\* of the job exists and names the collection of the record's
\* rag_collection.
C37_RagReadyHasSession ==
    \A t \in JobIds :
      (Exists(store, t) /\ "rag_ready" \in DOMAIN store[t] /\ store[t].rag_ready)
        => /\ Exists(session, t)
           /\ session[t].collection_name = Get(store[t], "rag_collection")

\* C39: a callback with the valid secret whose payload status is neither
\* completed nor error is answered 200 in the step that receives it, without
\* a transcript fetch, and leaves the Job Store, the session records, the
\* collections and the broker as they were.
C39_ProgressCallbackIsNoOp ==
    [][( /\ api' # api
         /\ api'.op = "webhook"
         /\ ~BadSecret(api')
         /\ api'.status \notin {"completed", "error"} )
         => /\ api'.pc = "done"
            /\ api'.code = 200
            /\ ~api'.fetched
            /\ store' = store
            /\ queue' = queue
            /\ session' = session
            /\ coll' = coll]_vars

\* a progress callback answered 200 while the job's record is stored
C39_Witness ==
    /\ api.op = "webhook" /\ api.pc = "done"
    /\ ~BadSecret(api)
    /\ api.status = "processing"
    /\ api.code = 200
    /\ api.msg = "Webhook received successfully."
    /\ Exists(store, api.task_id)

\* C31: in one live stream a poll of the Job Store emits exactly one event
\* and is followed by the end of the stream or by one sleep of the poll
\* interval; the sleep emits nothing and leads to the next poll, so two
\* consecutive polls are separated by exactly one sleep.
C31_OneSleepBetweenPolls ==
    [][/\ (stream.pc = "poll" /\ stream' # stream /\ stream'.pc # "disconnected")
            => /\ stream'.pc \in {"sleep", "ended"}
               /\ stream'.polls = Counted(stream.polls)
               /\ stream'.emitted = Counted(stream.emitted)
       /\ (stream.pc = "sleep" /\ stream' # stream)
            => stream' = [stream EXCEPT !.pc = "poll"]
       /\ (stream'.last # stream.last \/ stream'.emitted # stream.emitted
             \/ stream'.polls # stream.polls)
            => stream.pc \in {"none", "poll"}
       /\ (stream.pc = "none" /\ cfg.api_redis) => (stream'.polls = 0 /\ stream'.emitted = 0)]_vars

\* a stream that polled, slept once and polled again: its second event
\* ended it
C31_Witness ==
    /\ stream.pc = "ended"
    /\ stream.polls = 2 /\ stream.emitted = 2
    /\ stream.seen /\ Exists(store, stream.task_id)
    /\ stream.last = Pop(store[stream.task_id], "object_key")

\* the stream is open: its generator is at a poll or in the sleep
StreamOpen == stream.pc \in {"poll", "sleep"}

\* the stream is over
StreamOver == stream.pc \in {"ended", "disconnected"}

\* the record of the streamed job is gone, or it is failed, or its
\* summary_status is completed or failed
RecordEndsStream ==
    \/ ~Exists(store, stream.task_id)
    \/ store[stream.task_id].status = "failed"
    \/ Get(store[stream.task_id], "summary_status") \in {"completed", "failed"}

\* C38 (as stated): every live stream open on a job whose transcription has
\* reached a terminal status eventually ends, under fair scheduling of the
\* worker tasks and of the stream's polls.
C38_StreamEndsOnTerminalJob ==
    ( /\ StreamOpen
      /\ Exists(store, stream.task_id)
      /\ Terminal(store[stream.task_id].status) ) ~> StreamOver

\* C38 (amended): a live stream that is open while the job's record is gone,
\* failed, or has summary_status completed or failed eventually ends, unless
\* the record leaves that condition before the next poll.
C38_StreamEndsOnEndingRecord ==
    (StreamOpen /\ RecordEndsStream) ~> (StreamOver \/ ~RecordEndsStream)

\* a stream that emitted a completed transcription, went on polling and
\* ended on the event that showed the summary completed
C38_Witness ==
    /\ stream.pc = "ended"
    /\ stream.polls = 2
    /\ stream.last.status = "completed"
    /\ Get(stream.last, "summary_status") = "completed"

\* C32: a delete of a job's chat session that is answered 200 has removed
\* the job's collection and the session record: after the removal step the
\* collection named in the session does not exist, and after the last step
\* the session record does not exist.
C32_DeleteRemovesSessionAndCollection ==
    [][/\ (api.op = "delete" /\ api.pc = "collection" /\ api' # api
             /\ Truthy(api.collection_name))
            => ~Exists(coll', api.collection_name)
       /\ (api.op = "delete" /\ api.pc = "session" /\ api' # api)
            => /\ api'.code = 200
               /\ ~Exists(session', api.task_id)]_vars

\* no upload-document request of the job is in progress
NoUploadInProgress(t) ==
    /\ uploads[t].awaiting = EmptyBag
    /\ ~(api.op = "upload" /\ api.task_id = t /\ api.pc \in {"add", "set"})

\* C40: when the upload-document requests of a job have all returned, the
\* uploaded_documents list of its chat-session record holds one entry for
\* each request that was answered with success=true.
C40_OneEntryPerUpload ==
    \A t \in JobIds :
      (Exists(session, t) /\ NoUploadInProgress(t))
        => Len(session[t].uploaded_documents) = uploads[t].succeeded
====
